---- MODULE Spec2Model ----
(***************************************************************************)
(* Model of the term / instance layer of hoice (src/src/instance/mod.rs):  *)
(* the hash-consed term factory, the operator algebra, the instance        *)
(* container and the translation of counterexamples to learning data.      *)
(***************************************************************************)
EXTENDS Integers, Sequences, FiniteSets, TLC

VARIABLES factory, consts, preds, preds_term, max_pred_arity, clauses,
          log, ret, data

vars == <<factory, consts, preds, preds_term, max_pred_arity, clauses,
          log, ret, data>>

(***************************************************************************)
(* Bounds of the model.                                                    *)
(***************************************************************************)
\* Highest variable index handed to Instance::var.
MaxVar == 1
\* Highest integer constant handed to Instance::int.
MaxInt == 1
\* Longest argument list handed to Instance::op.
MaxArgs == 2
\* Number of constructor calls made on an instance after Instance::mk.
MaxCalls == 2
\* Number of predicates pushed to an instance.
MaxPreds == 2
\* Longest predicate signature.
MaxArity == 1
\* Number of clauses in the clause pool.
MaxClauses == 3
\* Number of counterexamples handed to one call of cexs_to_data.
MaxCexs == 2
\* Largest absolute value of the integers handed to Op::eval (besides 7, 3, -7).
MaxVal == 1
\* Number of operands handed to one call of Op::eval.
MaxOperands == 3

(***************************************************************************)
(* Operators (enum Op) and real terms (enum RTerm).                        *)
(***************************************************************************)
Op == {"Add", "Sub", "Mul", "Div", "Mod", "Gt", "Ge", "Le", "Lt",
       "Impl", "Eql", "Not", "And", "Or"}

\* The operators the constructor calls of the factory specification draw from.
BuildOps == {"Add", "And", "Or"}

\* RTerm::Var(v)
RVar(v) ==
  [tag |-> "Var", var |-> v, int |-> 0, bool |-> FALSE, op |-> "", args |-> <<>>]
\* RTerm::Int(i)
RInt(i) ==
  [tag |-> "Int", var |-> 0, int |-> i, bool |-> FALSE, op |-> "", args |-> <<>>]
\* RTerm::Bool(b)
RBool(b) ==
  [tag |-> "Bool", var |-> 0, int |-> 0, bool |-> b, op |-> "", args |-> <<>>]
\* RTerm::App { op, args }; args is a sequence of term handles (uids).
RApp(o, args) ==
  [tag |-> "App", var |-> 0, int |-> 0, bool |-> FALSE, op |-> o, args |-> args]

(***************************************************************************)
(* The factory. A hash-consed term (Term = HConsed<RTerm>) is its uid; the *)
(* factory is the sequence of the structures consed so far, the term of    *)
(* uid u being factory[u + 1].                                             *)
(***************************************************************************)
get(f, t) == f[t + 1]

\* HashConsign::mk: the term already consed for the structure, or a new one.
mk(f, r) ==
  IF \E u \in 0 .. Len(f) - 1 : f[u + 1] = r
  THEN [factory |-> f, term |-> CHOOSE u \in 0 .. Len(f) - 1 : f[u + 1] = r]
  ELSE [factory |-> Append(f, r), term |-> Len(f)]

\* A constructor that conses without looking the structure up.
var_fresh(f, v) == [factory |-> Append(f, RVar(v)), term |-> Len(f)]

\* Instance::var
var(f, v) == mk(f, RVar(v))

\* Instance::int
int(f, i) == mk(f, RInt(i))

\* Instance::zero
zero(f) == int(f, 0)

\* Instance::one
one(f) == int(f, 1)

\* Instance::bool
bool(f, b) == mk(f, RBool(b))

\* A simplifier with the constants of the nullary cases exchanged.
simplify_swapped(f, o, args) ==
  IF o = "And" /\ Len(args) = 0 THEN bool(f, TRUE)
  ELSE IF o = "Or" /\ Len(args) = 0 THEN bool(f, FALSE)
  ELSE IF o \in {"And", "Or"} /\ Len(args) = 1
       THEN [factory |-> f, term |-> args[Len(args)]]
  ELSE mk(f, RApp(o, args))

\* A simplifier that also collapses unary applications of the other operators.
simplify_unary(f, o, args) ==
  IF o = "And" /\ Len(args) = 0 THEN bool(f, FALSE)
  ELSE IF o = "Or" /\ Len(args) = 0 THEN bool(f, TRUE)
  ELSE IF Len(args) = 1 THEN [factory |-> f, term |-> args[Len(args)]]
  ELSE mk(f, RApp(o, args))

\* A simplifier that takes a single operand for none.
simplify_short(f, o, args) ==
  IF o = "And" /\ Len(args) =< 1 THEN bool(f, FALSE)
  ELSE IF o = "Or" /\ Len(args) =< 1 THEN bool(f, TRUE)
  ELSE mk(f, RApp(o, args))

\* Op::simplify
simplify(f, o, args) ==
  IF o = "And"
  THEN IF Len(args) = 0 THEN bool(f, FALSE)
       ELSE IF Len(args) = 1 THEN [factory |-> f, term |-> args[Len(args)]]
       ELSE mk(f, RApp(o, args))
  ELSE IF o = "Or"
  THEN IF Len(args) = 0 THEN bool(f, TRUE)
       ELSE IF Len(args) = 1 THEN [factory |-> f, term |-> args[Len(args)]]
       ELSE mk(f, RApp(o, args))
  ELSE mk(f, RApp(o, args))

\* Instance::op
op(f, o, args) == simplify(f, o, args)

(***************************************************************************)
(* Instance::mk: the empty instance, its factory holding the constants 1   *)
(* and 0, in that order of construction.                                   *)
(***************************************************************************)
None == [some |-> FALSE, term |-> 0]
Some(t) == [some |-> TRUE, term |-> t]

Instance_mk ==
  LET wan == one(<<>>)
      too == zero(wan.factory)
  IN  [factory |-> too.factory,
       consts |-> {wan.term, too.term},
       preds |-> <<>>,
       preds_term |-> <<>>,
       max_pred_arity |-> 0,
       clauses |-> <<>>]

(***************************************************************************)
(* Values (enum Val) and results (Res<T>). A result is Ok, an error with   *)
(* its chain of messages (outermost first), or a panic of the program.     *)
(***************************************************************************)
\* Val::B(b)
VB(b) == [tag |-> "B", b |-> b, i |-> 0]
\* Val::I(i)
VI(i) == [tag |-> "I", b |-> FALSE, i |-> i]
\* Val::N
VN == [tag |-> "N", b |-> FALSE, i |-> 0]

Msg(m, o) == [msg |-> m, op |-> o]

\* Ok(v)
Ok(v) == [res |-> "ok", val |-> v, chain |-> <<>>]
\* bail!(m)
Err(m) == [res |-> "err", val |-> VN, chain |-> <<Msg(m, "")>>]
\* A panic: an index out of bounds, a division by zero.
Panic(m) == [res |-> "panic", val |-> VN, chain |-> <<Msg(m, "")>>]

\* ResultExt::chain_err
chain_err(r, m) ==
  IF r.res = "err" THEN [r EXCEPT !.chain = <<m>> \o @] ELSE r

\* Val::to_bool: Ok(Some(b)), Ok(None) or an error.
to_bool(v) ==
  IF v.tag = "B" THEN [res |-> "ok", some |-> TRUE, b |-> v.b, chain |-> <<>>]
  ELSE IF v.tag = "I"
  THEN [res |-> "err", some |-> FALSE, b |-> FALSE,
        chain |-> <<Msg("expected boolean value, found integer", "")>>]
  ELSE [res |-> "ok", some |-> FALSE, b |-> FALSE, chain |-> <<>>]

\* A to_int that takes N for the default integer, 0.
to_int_zero(v) ==
  IF v.tag = "B"
  THEN [res |-> "err", some |-> FALSE, i |-> 0,
        chain |-> <<Msg("expected integer value, found boolean", "")>>]
  ELSE [res |-> "ok", some |-> TRUE, i |-> v.i, chain |-> <<>>]

\* Val::to_int: Ok(Some(i)), Ok(None) or an error.
to_int(v) ==
  IF v.tag = "B"
  THEN [res |-> "err", some |-> FALSE, i |-> 0,
        chain |-> <<Msg("expected integer value, found boolean", "")>>]
  ELSE IF v.tag = "I" THEN [res |-> "ok", some |-> TRUE, i |-> v.i, chain |-> <<>>]
  ELSE [res |-> "ok", some |-> FALSE, i |-> 0, chain |-> <<>>]

\* What try_val! returns from the enclosing function when the projection p
\* of a value is not Some: the error of p, or Ok(Val::N).
try_val_exit(p) ==
  IF p.res = "err" THEN [res |-> "err", val |-> VN, chain |-> p.chain]
  ELSE Ok(VN)

(***************************************************************************)
(* Integer arithmetic of num::BigInt.                                      *)
(***************************************************************************)
Abs(a) == IF a < 0 THEN -a ELSE a

\* BigInt `/`: the quotient rounded towards zero (b # 0).
TruncDiv(a, b) ==
  IF (a < 0) = (b < 0) THEN Abs(a) \div Abs(b) ELSE -(Abs(a) \div Abs(b))

\* The remainder of the quotient rounded towards zero (the operator %).
mod_trunc(a, b) == a - b * TruncDiv(a, b)

\* Integer::mod_floor: the remainder of the quotient rounded down (b # 0).
mod_floor(a, b) ==
  LET q == TruncDiv(a, b)
      r == a - b * q
  IN  IF r # 0 /\ ((r < 0) # (b < 0)) THEN r + b ELSE r

(***************************************************************************)
(* Op::eval. The operands are looked at from left to right, and the first  *)
(* one that ends the evaluation decides its result.                        *)
(***************************************************************************)
\* The body of the loop of Add, Sub, Mul and Div from operand k on, the
\* accumulator being res.
RECURSIVE arith_fold(_, _, _, _)
arith_fold(o, args, k, res) ==
  IF k > Len(args) THEN Ok(VI(res))
  ELSE LET nxt == to_int(args[k])
       IN  IF ~(nxt.res = "ok" /\ nxt.some) THEN try_val_exit(nxt)
           ELSE IF o = "Add" THEN arith_fold(o, args, k + 1, res + nxt.i)
           ELSE IF o = "Sub" THEN arith_fold(o, args, k + 1, res - nxt.i)
           ELSE IF o = "Mul" THEN arith_fold(o, args, k + 1, res * nxt.i)
           ELSE IF nxt.i = 0 THEN Panic("attempt to divide by zero")
           ELSE arith_fold(o, args, k + 1, TruncDiv(res, nxt.i))

\* The relation of a comparison operator.
cmp(o, a, b) ==
  IF o = "Gt" THEN a > b
  ELSE IF o = "Ge" THEN a >= b
  ELSE IF o = "Le" THEN a <= b
  ELSE a < b

\* A loop of Gt, Ge, Le and Lt that compares every operand with the first.
RECURSIVE chain_fold_first(_, _, _, _)
chain_fold_first(o, args, k, last) ==
  IF k > Len(args) THEN Ok(VB(TRUE))
  ELSE LET nxt == to_int(args[k])
       IN  IF ~(nxt.res = "ok" /\ nxt.some) THEN try_val_exit(nxt)
           ELSE IF cmp(o, last, nxt.i) THEN chain_fold_first(o, args, k + 1, last)
           ELSE Ok(VB(FALSE))

\* The body of the loop of Gt, Ge, Le and Lt from operand k on.
RECURSIVE chain_fold(_, _, _, _)
chain_fold(o, args, k, last) ==
  IF k > Len(args) THEN Ok(VB(TRUE))
  ELSE LET nxt == to_int(args[k])
       IN  IF ~(nxt.res = "ok" /\ nxt.some) THEN try_val_exit(nxt)
           ELSE IF cmp(o, last, nxt.i) THEN chain_fold(o, args, k + 1, nxt.i)
           ELSE Ok(VB(FALSE))

\* The body of the loop of Eql from operand k on.
RECURSIVE eql_fold(_, _, _)
eql_fold(args, k, mem) ==
  IF k > Len(args) THEN Ok(VB(TRUE))
  ELSE IF mem # args[k] THEN Ok(VB(FALSE))
  ELSE eql_fold(args, k + 1, mem)

\* A loop of And and Or that answers N as soon as it meets an N operand.
RECURSIVE bool_fold_strict(_, _, _, _)
bool_fold_strict(stop, args, k, unknown) ==
  IF k > Len(args) THEN Ok(VB(~stop))
  ELSE LET arg == to_bool(args[k])
       IN  IF arg.res = "err" THEN [res |-> "err", val |-> VN, chain |-> arg.chain]
           ELSE IF ~arg.some THEN Ok(VN)
           ELSE IF arg.b = stop THEN Ok(VB(stop))
           ELSE bool_fold_strict(stop, args, k + 1, unknown)

\* The loop of And (stop == FALSE) and Or (stop == TRUE) from operand k on.
RECURSIVE bool_fold(_, _, _, _)
bool_fold(stop, args, k, unknown) ==
  IF k > Len(args) THEN (IF unknown THEN Ok(VN) ELSE Ok(VB(~stop)))
  ELSE LET arg == to_bool(args[k])
       IN  IF arg.res = "err" THEN [res |-> "err", val |-> VN, chain |-> arg.chain]
           ELSE IF arg.some /\ arg.b = stop THEN Ok(VB(stop))
           ELSE bool_fold(stop, args, k + 1, unknown \/ ~arg.some)

\* Op::eval
Op_eval(o, args) ==
  IF args = <<>> THEN Err("evaluating operator on 0 elements")
  ELSE IF o \in {"Add", "Mul", "Div"} \/ (o = "Sub" /\ Len(args) # 1)
  THEN LET fst == to_int(args[1])
       IN  IF ~(fst.res = "ok" /\ fst.some) THEN try_val_exit(fst)
           ELSE arith_fold(o, args, 2, fst.i)
  ELSE IF o = "Sub"
  THEN LET a == to_int(args[1])
       IN  IF ~(a.res = "ok" /\ a.some) THEN try_val_exit(a)
           ELSE Ok(VI(-a.i))
  ELSE IF o = "Mod"
  THEN IF Len(args) # 2 THEN Err("evaluating Div with n (!= 2) arguments")
       ELSE LET b == to_int(args[2])
                a == to_int(args[1])
            IN  IF ~(b.res = "ok" /\ b.some) THEN try_val_exit(b)
                ELSE IF ~(a.res = "ok" /\ a.some) THEN try_val_exit(a)
                ELSE IF b.i = 0 THEN Panic("attempt to divide by zero")
                ELSE Ok(VI(mod_floor(a.i, b.i)))
  ELSE IF o \in {"Gt", "Ge", "Le", "Lt"}
  THEN LET fst == to_int(args[1])
       IN  IF ~(fst.res = "ok" /\ fst.some) THEN try_val_exit(fst)
           ELSE chain_fold(o, args, 2, fst.i)
  ELSE IF o = "Eql" THEN eql_fold(args, 2, args[1])
  ELSE IF o = "Not"
  THEN IF Len(args) # 1 THEN Err("evaluating Not with n (!= 1) arguments")
       ELSE LET b == to_bool(args[1])
            IN  IF ~(b.res = "ok" /\ b.some) THEN try_val_exit(b)
                ELSE Ok(VB(~b.b))
  ELSE IF o = "And" THEN bool_fold(FALSE, args, 1, FALSE)
  ELSE IF o = "Or" THEN bool_fold(TRUE, args, 1, FALSE)
  ELSE IF Len(args) # 2 THEN Err("evaluating Impl with n (!= 2) arguments")
  ELSE LET rhs == to_bool(args[2])
           lhs == to_bool(args[1])
       IN  IF lhs.res = "err" THEN [res |-> "err", val |-> VN, chain |-> lhs.chain]
           ELSE IF rhs.res = "err"
           THEN [res |-> "err", val |-> VN, chain |-> rhs.chain]
           ELSE IF (rhs.some /\ rhs.b) \/ (lhs.some /\ ~lhs.b) THEN Ok(VB(TRUE))
           ELSE IF lhs.some /\ rhs.some THEN Ok(VB(rhs.b \/ ~lhs.b))
           ELSE Ok(VN)

(***************************************************************************)
(* RTerm::eval: the evaluation loop with its explicit stack. A state of    *)
(* the loop is the label it is at ("eval", "go_up" or "done"), the term it *)
(* goes down, the stack of (op, to_do, values) frames, the last value      *)
(* computed and, once done, the result.                                    *)
(***************************************************************************)
eval_start(term) ==
  [pc |-> "eval", current |-> term, stack |-> <<>>, evaled |-> VN,
   result |-> Ok(VN)]

eval_done(st, r) == [st EXCEPT !.pc = "done", !.result = r]

\* A descent that pushes the frame back without moving to its next operand.
eval_go_down_same(st, top, rest, values) ==
  [st EXCEPT
     !.pc = "eval",
     !.stack = Append(rest, [op |-> top.op,
                             to_do |-> Tail(top.to_do),
                             values |-> values])]

\* Going down the first element of to_do: the frame top, popped from the
\* stack (rest is what is left of it), goes back with the value just computed
\* and without the operand that becomes the current term.
eval_go_down(st, top, rest, values) ==
  [st EXCEPT
     !.pc = "eval",
     !.current = top.to_do[1],
     !.stack = Append(rest, [op |-> top.op,
                             to_do |-> Tail(top.to_do),
                             values |-> values])]

\* One iteration of the loop eval or of the loop go_up.
eval_step(f, model, st) ==
  IF st.pc = "eval"
  THEN LET t == get(f, st.current)
       IN  IF t.tag = "App"
           THEN IF t.args = <<>>
                THEN eval_done(st, Panic("index out of bounds"))
                ELSE [st EXCEPT
                        !.current = t.args[1],
                        !.stack = Append(@, [op |-> t.op, to_do |-> Tail(t.args),
                                             values |-> <<>>])]
           ELSE IF t.tag = "Var"
           THEN IF t.var >= Len(model)
                THEN eval_done(st, Panic("index out of bounds"))
                ELSE [st EXCEPT !.pc = "go_up", !.evaled = model[t.var + 1]]
           ELSE IF t.tag = "Int"
           THEN [st EXCEPT !.pc = "go_up", !.evaled = VI(t.int)]
           ELSE [st EXCEPT !.pc = "go_up", !.evaled = VB(t.bool)]
  ELSE IF st.stack = <<>> THEN eval_done(st, Ok(st.evaled))
  ELSE LET top == st.stack[Len(st.stack)]
           rest == SubSeq(st.stack, 1, Len(st.stack) - 1)
           values == Append(top.values, st.evaled)
       IN  IF top.to_do = <<>>
           THEN LET r == chain_err(Op_eval(top.op, values),
                                   Msg("while evaluating operator", top.op))
                IN  IF r.res = "ok"
                    THEN [st EXCEPT !.stack = rest, !.evaled = r.val]
                    ELSE eval_done([st EXCEPT !.stack = rest], r)
           ELSE eval_go_down(st, top, rest, values)

RECURSIVE eval_loop(_, _, _)
eval_loop(f, model, st) ==
  IF st.pc = "done" THEN st.result ELSE eval_loop(f, model, eval_step(f, model, st))

\* RTerm::eval
eval(f, term, model) == eval_loop(f, model, eval_start(term))

\* RTerm::bool_eval: Ok(Some(b)), Ok(None), an error or a panic.
bool_eval(f, term, model) ==
  LET r == eval(f, term, model)
  IN  IF r.res = "ok" THEN to_bool(r.val)
      ELSE [res |-> r.res, some |-> FALSE, b |-> FALSE, chain |-> r.chain]

\* RTerm::int_eval
int_eval(f, term, model) ==
  LET r == eval(f, term, model)
  IN  IF r.res = "ok" THEN to_int(r.val)
      ELSE [res |-> r.res, some |-> FALSE, i |-> 0, chain |-> r.chain]

\* RTerm::is_true
is_true(f, term) == get(f, term).tag = "Bool" /\ get(f, term).bool

\* RTerm::is_false
is_false(f, term) == get(f, term).tag = "Bool" /\ ~get(f, term).bool

\* The instance as one value: the fields of struct Instance.
Self ==
  [factory |-> factory, consts |-> consts, preds |-> preds,
   preds_term |-> preds_term, max_pred_arity |-> max_pred_arity,
   clauses |-> clauses]

\* The instance is s (in the state after a step: the primed fields are s').
IsInstance(s) ==
  /\ factory = s.factory
  /\ consts = s.consts
  /\ preds = s.preds
  /\ preds_term = s.preds_term
  /\ max_pred_arity = s.max_pred_arity
  /\ clauses = s.clauses

Becomes(s) ==
  /\ factory' = s.factory
  /\ consts' = s.consts
  /\ preds' = s.preds
  /\ preds_term' = s.preds_term
  /\ max_pred_arity' = s.max_pred_arity
  /\ clauses' = s.clauses

\* ::std::cmp::max
max(a, b) == IF a >= b THEN a ELSE b

(***************************************************************************)
(* Top terms, variable and predicate infos, clauses.                       *)
(***************************************************************************)
\* TTerm::P { pred, args }
P(pred, args) == [kind |-> "P", pred |-> pred, args |-> args, term |-> 0]
\* TTerm::N(term)
N(t) == [kind |-> "N", pred |-> 0, args |-> <<>>, term |-> t]
\* TTerm::T(term)
T(t) == [kind |-> "T", pred |-> 0, args |-> <<>>, term |-> t]

\* A TTerm::is_true that forgets the negation of N.
TTerm_is_true_plain(f, tterm) ==
  IF tterm.kind \in {"N", "T"} THEN is_true(f, tterm.term) ELSE FALSE

\* TTerm::is_true
TTerm_is_true(f, tterm) ==
  IF tterm.kind = "N" THEN is_false(f, tterm.term)
  ELSE IF tterm.kind = "T" THEN is_true(f, tterm.term)
  ELSE FALSE

\* TTerm::is_false
TTerm_is_false(f, tterm) ==
  IF tterm.kind = "N" THEN is_true(f, tterm.term)
  ELSE IF tterm.kind = "T" THEN is_false(f, tterm.term)
  ELSE FALSE

\* Clause::mk
Clause_mk(cvars, lhs, rhs) == [vars |-> cvars, lhs |-> lhs, rhs |-> rhs]

(***************************************************************************)
(* Operations of the instance. Predicate, clause and variable indices      *)
(* count from 0; the element of index i of a map m is m[i + 1].            *)
(***************************************************************************)
\* Instance::term_of
term_of(self, pred) == self.preds_term[pred + 1]

\* A push_pred that keeps the arity of the last signature only.
push_pred_last(self, name, sig) ==
  LET idx == Len(self.preds)
  IN  [self |-> [self EXCEPT
                   !.max_pred_arity = Len(sig),
                   !.preds = Append(@, [name |-> name, idx |-> idx, sig |-> sig]),
                   !.preds_term = Append(@, None)],
       idx |-> idx]

\* A push_pred that forgets to grow preds_term.
push_pred_short(self, name, sig) ==
  LET idx == Len(self.preds)
  IN  [self |-> [self EXCEPT
                   !.max_pred_arity = max(@, Len(sig)),
                   !.preds = Append(@, [name |-> name, idx |-> idx, sig |-> sig])],
       idx |-> idx]

\* Instance::push_pred
push_pred(self, name, sig) ==
  LET idx == Len(self.preds)
  IN  [self |-> [self EXCEPT
                   !.max_pred_arity = max(@, Len(sig)),
                   !.preds = Append(@, [name |-> name, idx |-> idx, sig |-> sig]),
                   !.preds_term = Append(@, None)],
       idx |-> idx]

\* A force_pred that overwrites the term a predicate is forced to.
force_pred_overwrite(self, pred, term) ==
  [self |-> [self EXCEPT !.preds_term[pred + 1] = Some(term)],
   ok |-> ~(self.preds_term[pred + 1].some
            /\ self.preds_term[pred + 1].term # term)]

\* Instance::force_pred
force_pred(self, pred, term) ==
  IF self.preds_term[pred + 1].some /\ self.preds_term[pred + 1].term # term
  THEN [self |-> self, ok |-> FALSE]
  ELSE [self |-> [self EXCEPT !.preds_term[pred + 1] = Some(term)],
        ok |-> TRUE]

\* A forget_clause that removes by shifting the later clauses down.
forget_clause_shift(self, clause) ==
  LET n == Len(self.clauses)
  IN  [self |-> [self EXCEPT
                   !.clauses = [j \in 1 .. n - 1 |->
                                  IF j < clause + 1 THEN self.clauses[j]
                                  ELSE self.clauses[j + 1]]],
       clause |-> self.clauses[clause + 1]]

\* Instance::forget_clause (Vec::swap_remove)
forget_clause(self, clause) ==
  LET n == Len(self.clauses)
  IN  [self |-> [self EXCEPT
                   !.clauses = [j \in 1 .. n - 1 |->
                                  IF j = clause + 1 THEN self.clauses[n]
                                  ELSE self.clauses[j]]],
       clause |-> self.clauses[clause + 1]]

\* Instance::push_clause
push_clause(self, clause) == [self EXCEPT !.clauses = Append(@, clause)]

\* An eval_term_of that hands the partial evaluation of a forced term through.
eval_term_of_partial(self, pred, model) ==
  IF term_of(self, pred).some
  THEN bool_eval(self.factory, term_of(self, pred).term, model)
  ELSE [res |-> "ok", some |-> FALSE, b |-> FALSE, chain |-> <<>>]

\* Instance::eval_term_of: Ok(Some(b)), Ok(None), an error or a panic.
eval_term_of(self, pred, model) ==
  IF term_of(self, pred).some
  THEN LET r == bool_eval(self.factory, term_of(self, pred).term, model)
       IN  IF r.res = "ok" /\ ~r.some
           THEN [res |-> "err", some |-> FALSE, b |-> FALSE,
                 chain |-> <<Msg("partial model during predicate term evaluation", "")>>]
           ELSE r
  ELSE [res |-> "ok", some |-> FALSE, b |-> FALSE, chain |-> <<>>]

(***************************************************************************)
(* The learning data sink (common::data::Data), seen through the calls it  *)
(* receives: the sink is the sequence of the calls made to it, each with   *)
(* its arguments and with whether it returned Ok.                          *)
(***************************************************************************)
\* Option<(PrdIdx, Args)>
NoneC == [some |-> FALSE, pred |-> 0, args |-> <<>>]
SomeC(pred, args) == [some |-> TRUE, pred |-> pred, args |-> args]

\* Data::stage_raw_pos
stage_raw_pos(d, pred, args, ok) ==
  Append(d, [call |-> "stage_raw_pos", pred |-> pred, args |-> args,
             antecedents |-> <<>>, consequent |-> NoneC, ok |-> ok])

\* Data::stage_raw_neg
stage_raw_neg(d, pred, args, ok) ==
  Append(d, [call |-> "stage_raw_neg", pred |-> pred, args |-> args,
             antecedents |-> <<>>, consequent |-> NoneC, ok |-> ok])

\* Data::add_cstr
add_cstr(d, antecedents, consequent, ok) ==
  Append(d, [call |-> "add_cstr", pred |-> 0, args |-> <<>>,
             antecedents |-> antecedents, consequent |-> consequent, ok |-> ok])

(***************************************************************************)
(* Instance::cexs_to_data.                                                 *)
(***************************************************************************)
\* The loop over the arguments of a predicate application, from argument k
\* on: the values of the arguments under the cex, or the first failure.
\* eval_args_push is the end of one iteration, r the result of the
\* evaluation of argument k.
RECURSIVE eval_args(_, _, _, _, _)
eval_args_push(f, args, k, cex, values, r) ==
  IF r.res # "ok"
  THEN [res |-> r.res, values |-> values, chain |-> r.chain]
  ELSE eval_args(f, args, k + 1, cex, Append(values, r.val))

eval_args(f, args, k, cex, values) ==
  IF k > Len(args) THEN [res |-> "ok", values |-> values, chain |-> <<>>]
  ELSE eval_args_push(
         f, args, k, cex, values,
         chain_err(
           eval(f, args[k], cex),
           Msg("during argument evaluation to generate learning data", "")))

\* The loop over the lhs of a clause, from top term k on: the antecedents,
\* or the first failure. lhs_antecedents_push is the end of the iteration on
\* an application of a predicate that is not forced, r the result of the
\* evaluation of its arguments.
RECURSIVE lhs_antecedents(_, _, _, _, _)
\* An end of iteration that puts the antecedent in front of the others.
lhs_antecedents_push_front(self, lhs, k, cex, antecedents, r) ==
  IF r.res # "ok"
  THEN [res |-> r.res, antecedents |-> antecedents, chain |-> r.chain]
  ELSE lhs_antecedents(
         self, lhs, k + 1, cex,
         <<[pred |-> lhs[k].pred, args |-> r.values]>> \o antecedents)

lhs_antecedents_push(self, lhs, k, cex, antecedents, r) ==
  IF r.res # "ok"
  THEN [res |-> r.res, antecedents |-> antecedents, chain |-> r.chain]
  ELSE lhs_antecedents(
         self, lhs, k + 1, cex,
         Append(antecedents, [pred |-> lhs[k].pred, args |-> r.values]))

lhs_antecedents(self, lhs, k, cex, antecedents) ==
  IF k > Len(lhs)
  THEN [res |-> "ok", antecedents |-> antecedents, chain |-> <<>>]
  ELSE IF lhs[k].kind = "P" /\ ~self.preds_term[lhs[k].pred + 1].some
  THEN lhs_antecedents_push(
         self, lhs, k, cex, antecedents,
         eval_args(self.factory, lhs[k].args, 1, cex, <<>>))
  ELSE lhs_antecedents(self, lhs, k + 1, cex, antecedents)

\* The consequent of a clause under a cex, or the first failure.
\* rhs_consequent_some is the end of the treatment of a predicate
\* application, r the result of the evaluation of its arguments.
rhs_consequent_some(pred, r) ==
  IF r.res # "ok"
  THEN [res |-> r.res, consequent |-> NoneC, chain |-> r.chain]
  ELSE [res |-> "ok", consequent |-> SomeC(pred, r.values), chain |-> <<>>]

rhs_consequent(self, rhs, cex) ==
  IF rhs.kind = "P"
  THEN rhs_consequent_some(
         rhs.pred, eval_args(self.factory, rhs.args, 1, cex, <<>>))
  ELSE [res |-> "ok", consequent |-> NoneC, chain |-> <<>>]

\* A match that stages the single antecedent as a positive sample and the
\* lone consequent as a negative one.
to_sink_swapped(d, antecedents, consequent, ok) ==
  IF Len(antecedents) = 0 /\ ~consequent.some
  THEN [res |-> "err", data |-> d,
        chain |-> <<Msg("[unimplemented] clause with no predicate has a cex (unsafe)", "")>>]
  ELSE LET d2 == IF Len(antecedents) = 1 /\ ~consequent.some
                 THEN stage_raw_pos(d, antecedents[1].pred, antecedents[1].args, ok)
                 ELSE IF Len(antecedents) = 0
                 THEN stage_raw_neg(d, consequent.pred, consequent.args, ok)
                 ELSE add_cstr(d, antecedents, consequent, ok)
       IN  [res |-> IF ok THEN "ok" ELSE "err", data |-> d2,
            chain |-> IF ok THEN <<>> ELSE <<Msg("sink error", "")>>]

\* The match on (antecedents.len(), consequent) that ends the treatment of
\* one counterexample; ok is whether the call it makes to the sink returns Ok.
to_sink(d, antecedents, consequent, ok) ==
  IF Len(antecedents) = 0 /\ ~consequent.some
  THEN [res |-> "err", data |-> d,
        chain |-> <<Msg("[unimplemented] clause with no predicate has a cex (unsafe)", "")>>]
  ELSE LET d2 == IF Len(antecedents) = 1 /\ ~consequent.some
                 THEN stage_raw_neg(d, antecedents[1].pred, antecedents[1].args, ok)
                 ELSE IF Len(antecedents) = 0 /\ consequent.some
                 THEN stage_raw_pos(d, consequent.pred, consequent.args, ok)
                 ELSE add_cstr(d, antecedents, consequent, ok)
       IN  [res |-> IF ok THEN "ok" ELSE "err", data |-> d2,
            chain |-> IF ok THEN <<>> ELSE <<Msg("sink error", "")>>]

\* What one (clause, cex) entry did: the antecedents and the consequent it
\* computed (if it got that far) and the calls it made to the sink.
Did(clause, cex, classified, antecedents, consequent, calls) ==
  [clause |-> clause, cex |-> cex, classified |-> classified,
   antecedents |-> antecedents, consequent |-> consequent, calls |-> calls]

\* The end of the treatment of one entry: the match, m its result.
cex_to_data_match(d, clause, cex, antecedents, consequent, m) ==
  [res |-> m.res, data |-> m.data, chain |-> m.chain,
   did |-> Did(clause, cex, TRUE, antecedents, consequent,
               SubSeq(m.data, Len(d) + 1, Len(m.data)))]

\* The treatment of one entry after the loop over the lhs: a is the result
\* of that loop, c the result of the treatment of the rhs.
cex_to_data_rhs(d, clause, cex, ok, a, c) ==
  IF a.res # "ok"
  THEN [res |-> a.res, data |-> d, chain |-> a.chain,
        did |-> Did(clause, cex, FALSE, a.antecedents, NoneC, <<>>)]
  ELSE IF c.res # "ok"
  THEN [res |-> c.res, data |-> d, chain |-> c.chain,
        did |-> Did(clause, cex, FALSE, a.antecedents, NoneC, <<>>)]
  ELSE cex_to_data_match(d, clause, cex, a.antecedents, c.consequent,
                         to_sink(d, a.antecedents, c.consequent, ok))

\* The body of the loop of cexs_to_data: one (clause, cex) entry. The result
\* carries the sink and what the entry did.
cex_to_data(self, d, clause, cex, ok) ==
  cex_to_data_rhs(
    d, clause, cex, ok,
    lhs_antecedents(self, self.clauses[clause + 1].lhs, 1, cex, <<>>),
    rhs_consequent(self, self.clauses[clause + 1].rhs, cex))

\* The loop of cexs_to_data from entry k on. cexs is the map of the
\* counterexamples in the order its iterator yields them; fail_at is the
\* number of the sink call that returns an error (0: none does), made is the
\* number of sink calls made so far, trace what the entries before k did.
\* cexs_loop_next is the end of one iteration, r the result of its body.
RECURSIVE cexs_loop(_, _, _, _, _, _, _)
\* An end of iteration that goes on to the next entry after a failure.
cexs_loop_next_skip(self, cexs, k, fail_at, made, trace, r) ==
  cexs_loop(self, r.data, cexs, k + 1, fail_at,
            made + Len(r.did.calls), Append(trace, r.did))

cexs_loop_next(self, cexs, k, fail_at, made, trace, r) ==
  IF r.res # "ok"
  THEN [res |-> r.res, data |-> r.data, chain |-> r.chain,
        trace |-> Append(trace, r.did)]
  ELSE cexs_loop(self, r.data, cexs, k + 1, fail_at,
                 made + Len(r.did.calls), Append(trace, r.did))

cexs_loop(self, d, cexs, k, fail_at, made, trace) ==
  IF k > Len(cexs)
  THEN [res |-> "ok", data |-> d, chain |-> <<>>, trace |-> trace]
  ELSE cexs_loop_next(
         self, cexs, k, fail_at, made, trace,
         cex_to_data(self, d, cexs[k].clause, cexs[k].cex, made + 1 # fail_at))

\* Instance::cexs_to_data
cexs_to_data(self, d, cexs, fail_at) ==
  cexs_loop(self, d, cexs, 1, fail_at, 0, <<>>)

NoRet == [op |-> "none"]

\* The constructor calls Instance::mk makes: one(), then zero().
Instance_mk_calls ==
  LET wan == one(<<>>)
      too == zero(wan.factory)
  IN  <<[req |-> RInt(1), ret |-> wan.term], [req |-> RInt(0), ret |-> too.term]>>

Init ==
  /\ IsInstance(Instance_mk)
  /\ log = Instance_mk_calls
  /\ ret = NoRet
  /\ data = <<>>

(***************************************************************************)
(* Constructor calls. Each call is recorded in the log with the structure  *)
(* it was asked for and the term it returned; the log starts with the two  *)
(* calls of Instance::mk.                                                  *)
(***************************************************************************)
Terms(f) == 0 .. Len(f) - 1

\* Argument lists of at most n terms of the factory f.
ArgLists(f, n) == UNION {[1 .. k -> Terms(f)] : k \in 0 .. n}

Called(req, res) ==
  /\ Len(log) < Len(Instance_mk_calls) + MaxCalls
  /\ factory' = res.factory
  /\ log' = Append(log, [req |-> req, ret |-> res.term])
  /\ UNCHANGED <<consts, preds, preds_term, max_pred_arity, clauses, ret, data>>

CallVar == \E v \in 0 .. MaxVar : Called(RVar(v), var(factory, v))

CallInt == \E i \in 0 .. MaxInt : Called(RInt(i), int(factory, i))

CallBool == \E b \in BOOLEAN : Called(RBool(b), bool(factory, b))

CallOp ==
  \E o \in BuildOps : \E args \in ArgLists(factory, MaxArgs) :
    Called(RApp(o, args), op(factory, o, args))

Next == CallVar \/ CallInt \/ CallBool \/ CallOp

Spec == Init /\ [][Next]_vars

(***************************************************************************)
(* Properties of the factory (specification Spec).                         *)
(***************************************************************************)
\* A call of op that Op::simplify answers without consing an application.
Collapsing(req) ==
  req.tag = "App" /\ req.op \in {"And", "Or"} /\ Len(req.args) < 2

\* C1, as stated: two constructor calls return the same term if and only if
\* their inputs are structurally equal.
C1_AsStated ==
  \A i, j \in DOMAIN log :
    (log[i].req = log[j].req) <=> (log[i].ret = log[j].ret)

\* C1, amended: calls with structurally equal inputs return the same term,
\* whatever was constructed before or in between, and calls with structurally
\* different inputs return different terms unless one of them is an
\* application of And or Or to fewer than two arguments.
C1_HashConsing ==
  \A i, j \in DOMAIN log :
    /\ log[i].req = log[j].req => log[i].ret = log[j].ret
    /\ (/\ log[i].req # log[j].req
        /\ ~Collapsing(log[i].req)
        /\ ~Collapsing(log[j].req)) => log[i].ret # log[j].ret

\* The constant 1 that Instance::mk consed is asked for again after an
\* application has been consed in between.
C1_Witness ==
  /\ Len(log) = 4
  /\ log[1].req = log[4].req /\ log[1].ret = log[4].ret
  /\ log[3].req.tag = "App" /\ ~Collapsing(log[3].req)
  /\ log[3].ret = 2

\* C2: op(And, []) is the term bool(false), op(Or, []) is the term
\* bool(true), op(And, [x]) and op(Or, [x]) are the term x, and the factory
\* holds no application of And or Or to fewer than two arguments.
C2_SimplifyContract ==
  /\ \A i \in DOMAIN log :
       LET req == log[i].req IN
         /\ req = RApp("And", <<>>) =>
              /\ log[i].ret \in Terms(factory)
              /\ log[i].ret = bool(factory, FALSE).term
         /\ req = RApp("Or", <<>>) =>
              /\ log[i].ret \in Terms(factory)
              /\ log[i].ret = bool(factory, TRUE).term
         /\ Collapsing(req) /\ Len(req.args) = 1 => log[i].ret = req.args[1]
  /\ \A t \in Terms(factory) : ~Collapsing(get(factory, t))

\* A nullary case and a unary case have been asked for.
C2_Witness ==
  /\ \E i \in DOMAIN log :
       /\ log[i].req = RApp("And", <<>>)
       /\ get(factory, log[i].ret) = RBool(FALSE)
  /\ \E i \in DOMAIN log :
       /\ Collapsing(log[i].req) /\ Len(log[i].req.args) = 1
       /\ log[i].ret = log[i].req.args[1]

\* C3: apart from And and Or on fewer than two arguments, op(o, args) returns
\* the term of exactly App{o, args}: same operator, same arguments, same order.
C3_NoOtherSimplification ==
  \A i \in DOMAIN log :
    LET req == log[i].req IN
      req.tag = "App" /\ ~Collapsing(req) =>
        /\ log[i].ret \in Terms(factory)
        /\ get(factory, log[i].ret) = req

\* A unary application of another operator and a binary And / Or over twice
\* the same constant have been built.
C3_Witness ==
  /\ \E i \in DOMAIN log :
       /\ log[i].req.tag = "App" /\ log[i].req.op = "Add"
       /\ Len(log[i].req.args) = 1
       /\ get(factory, log[i].ret) = log[i].req
  /\ \E i \in DOMAIN log :
       /\ log[i].req.tag = "App" /\ log[i].req.op \in {"And", "Or"}
       /\ Len(log[i].req.args) = 2
       /\ log[i].req.args[1] = log[i].req.args[2]
       /\ get(factory, log[i].ret) = log[i].req

\* C4: the Or of two terms is the same term whatever the order of the two
\* arguments.
C4_OrSwapped ==
  \A i, j \in DOMAIN log :
    (/\ log[i].req.tag = "App" /\ log[i].req.op = "Or"
     /\ Len(log[i].req.args) = 2
     /\ log[j].req = RApp("Or", <<log[i].req.args[2], log[i].req.args[1]>>))
    => log[i].ret = log[j].ret

(***************************************************************************)
(* The instance specification (SpecInst): predicates are pushed and        *)
(* forced, clauses are pushed and forgotten, on an instance whose factory  *)
(* already holds the terms the clauses and the forced predicates use.      *)
(***************************************************************************)
\* The instance after Instance::mk and the construction of v0, true, false
\* and (> v0 0): the terms of uid 2, 3, 4 and 5.
Prelude ==
  LET v0 == var(Instance_mk.factory, 0)
      tt == bool(v0.factory, TRUE)
      ff == bool(tt.factory, FALSE)
      gt == op(ff.factory, "Gt", <<v0.term, zero(ff.factory).term>>)
  IN  [Instance_mk EXCEPT !.factory = gt.factory]

TermV0 == var(Prelude.factory, 0).term
TermTrue == bool(Prelude.factory, TRUE).term
TermFalse == bool(Prelude.factory, FALSE).term
TermGt == op(Prelude.factory, "Gt", <<TermV0, zero(Prelude.factory).term>>).term

\* Predicate names and signatures handed to push_pred: one signature of each
\* length, (), (Int), (Int Bool), (Int Bool Int), ...
Names == {"p"}
SigInputs ==
  {[i \in 1 .. k |-> IF i % 2 = 1 THEN "Int" ELSE "Bool"] : k \in 0 .. MaxArity}

\* Terms handed to force_pred.
ForceInputs == {TermV0, TermTrue, TermGt}

\* The variable context of the clauses: x0 .. x<MaxVar>, all integers.
Ctx == [i \in 1 .. MaxVar + 1 |-> [name |-> <<"x", i - 1>>, idx |-> i - 1, typ |-> "Int"]]

\* Clauses handed to push_clause: `=> true` and `(> v0 0) => false`.
InstClauses ==
  {Clause_mk(Ctx, <<>>, T(TermTrue)),
   Clause_mk(Ctx, <<T(TermGt)>>, T(TermFalse))}

InitInst ==
  /\ IsInstance(Prelude)
  /\ log = <<>>
  /\ ret = NoRet
  /\ data = <<>>

PushPred ==
  \E name \in Names : \E sig \in SigInputs :
    /\ Len(preds) < MaxPreds
    /\ LET r == push_pred(Self, name, sig)
       IN  /\ Becomes(r.self)
           /\ ret' = [op |-> "push_pred", idx |-> r.idx]
    /\ UNCHANGED <<log, data>>

ForcePred ==
  \E pred \in 0 .. Len(preds) - 1 : \E term \in ForceInputs :
    /\ LET r == force_pred(Self, pred, term)
       IN  /\ Becomes(r.self)
           /\ ret' = [op |-> "force_pred", pred |-> pred, term |-> term,
                      ok |-> r.ok]
    /\ UNCHANGED <<log, data>>

PushClause ==
  \E c \in InstClauses :
    /\ Len(clauses) < MaxClauses
    /\ Becomes(push_clause(Self, c))
    /\ ret' = [op |-> "push_clause", clause |-> c]
    /\ UNCHANGED <<log, data>>

ForgetClause ==
  \E i \in 0 .. Len(clauses) - 1 :
    /\ LET r == forget_clause(Self, i)
       IN  /\ Becomes(r.self)
           /\ ret' = [op |-> "forget_clause", idx |-> i, clause |-> r.clause]
    /\ UNCHANGED <<log, data>>

\* Values of the variable v0 in the models handed to the evaluations.
ValInputs == {VB(TRUE), VI(1), VN}

\* Models of the variables of Ctx: v0 takes each value of ValInputs, the
\* other variables are integers.
ModelInputs ==
  {[i \in 1 .. MaxVar + 1 |-> IF i = 1 THEN v ELSE VI(i)] : v \in ValInputs}

EvalTermOf ==
  \E pred \in 0 .. Len(preds) - 1 : \E model \in ModelInputs :
    /\ ret' = [op |-> "eval_term_of", pred |-> pred, model |-> model,
               out |-> eval_term_of(Self, pred, model)]
    /\ UNCHANGED <<factory, consts, preds, preds_term, max_pred_arity,
                   clauses, log, data>>

NextInst ==
  PushPred \/ ForcePred \/ PushClause \/ ForgetClause \/ EvalTermOf

SpecInst == InitInst /\ [][NextInst]_vars

(***************************************************************************)
(* Properties of the instance (specification SpecInst).                    *)
(***************************************************************************)
\* C5: force_pred(p, t) on a predicate that is not forced, or is forced to t,
\* succeeds and leaves preds_term[p] = Some(t); on a predicate forced to
\* another term it fails and leaves every entry of preds_term as it was.
C5_ForcePred ==
  [][ret'.op = "force_pred" =>
       LET p == ret'.pred
           t == ret'.term
           old == preds_term[p + 1]
       IN  IF ~old.some \/ old.term = t
           THEN ret'.ok /\ preds_term'[p + 1] = Some(t)
           ELSE ~ret'.ok /\ preds_term' = preds_term]_vars

\* A force_pred has failed on a predicate forced to another term, another
\* predicate being forced as well.
C5_Witness ==
  /\ ret.op = "force_pred" /\ ~ret.ok
  /\ preds_term[ret.pred + 1].some
  /\ preds_term[ret.pred + 1].term # ret.term
  /\ \E q \in 0 .. Len(preds) - 1 : q # ret.pred /\ preds_term[q + 1].some

\* C6: preds and preds_term have the same length; the index push_pred returns
\* is the number of predicates before the call, the PrdInfo stored there
\* carries that index, and the new entry of preds_term is None.
C6_PredsInSync ==
  /\ Len(preds) = Len(preds_term)
  /\ \A i \in DOMAIN preds : preds[i].idx = i - 1
  /\ ret.op = "push_pred" =>
       /\ ret.idx = Len(preds) - 1
       /\ preds[ret.idx + 1].idx = ret.idx
       /\ preds_term[ret.idx + 1] = None

\* A second predicate has just been pushed, the first one being forced.
C6_Witness ==
  /\ ret.op = "push_pred" /\ ret.idx = 1
  /\ Len(preds) = 2 /\ preds_term[1].some /\ Len(clauses) > 0

\* The greatest signature length of the predicates, 0 if there is none.
MaxSigLen(ps) ==
  IF ps = <<>> THEN 0
  ELSE CHOOSE m \in {Len(ps[i].sig) : i \in DOMAIN ps} :
         \A i \in DOMAIN ps : Len(ps[i].sig) <= m

\* C7: max_pred_arity is the greatest signature length of the predicates
\* pushed so far (0 if none), and only push_pred changes it.
C7_ArityTight ==
  /\ [](max_pred_arity = MaxSigLen(preds))
  /\ [][ret'.op # "push_pred" => max_pred_arity' = max_pred_arity]_vars

\* A predicate of lower arity has been pushed after one of higher arity.
C7_Witness ==
  /\ Len(preds) = 2
  /\ Len(preds[2].sig) < Len(preds[1].sig)
  /\ max_pred_arity = Len(preds[1].sig)

\* C8: forget_clause(i) returns the clause at i and leaves a pool one clause
\* shorter in which position i holds the previously last clause and every
\* other position holds the clause it held; push_clause appends at the end.
C8_SwapRemove ==
  [][/\ ret'.op = "forget_clause" =>
          LET i == ret'.idx
              n == Len(clauses)
          IN  /\ i < n
              /\ ret'.clause = clauses[i + 1]
              /\ Len(clauses') = n - 1
              /\ i < n - 1 => clauses'[i + 1] = clauses[n]
              /\ \A j \in 0 .. n - 2 : j # i => clauses'[j + 1] = clauses[j + 1]
     /\ ret'.op = "push_clause" => clauses' = Append(clauses, ret'.clause)]_vars

\* The first of three clauses has been forgotten, and the two that remain
\* differ: the one that was last is now first.
C8_Witness ==
  /\ ret.op = "forget_clause" /\ ret.idx = 0
  /\ Len(clauses) = 2
  /\ clauses[1] # clauses[2]
  /\ ret.clause = clauses[1]

(***************************************************************************)
(* The counterexample specification (SpecCex): cexs_to_data is called,     *)
(* once and with an empty sink, on an instance with two predicates, p0     *)
(* (Int) and p1 (Int Bool), some of them forced, and a pool of clauses     *)
(* over them.                                                              *)
(***************************************************************************)
\* The predicate applications of the clauses: p0(v0) and p1(v0, (> v0 0)).
App0 == P(0, <<TermV0>>)
App1 == P(1, <<TermV0, TermGt>>)

\* The left-hand sides and the right-hand sides of the clauses of the pool.
LhsInputs ==
  <<<<>>, <<T(TermGt)>>, <<App0>>, <<App1>>, <<App0, App1>>,
    <<App0, N(TermGt), App0>>>>
RhsInputs == <<T(TermFalse), App1>>

\* The pool: one clause for each left-hand side and each right-hand side.
CexPool ==
  [k \in 1 .. Len(LhsInputs) * Len(RhsInputs) |->
     Clause_mk(Ctx, LhsInputs[((k - 1) \div Len(RhsInputs)) + 1],
               RhsInputs[((k - 1) % Len(RhsInputs)) + 1])]

\* push_clause of the clauses cs[k], cs[k + 1], ... in turn.
RECURSIVE push_clauses(_, _, _)
push_clauses(self, cs, k) ==
  IF k > Len(cs) THEN self
  ELSE push_clauses(push_clause(self, cs[k]), cs, k + 1)

\* The instance after the two push_pred, a force_pred to `true` of the
\* predicates of forced, and the push_clause of the clauses of the pool.
CexInstance(forced) ==
  LET s1 == push_pred(Prelude, "p", <<"Int">>).self
      s2 == push_pred(s1, "q", <<"Int", "Bool">>).self
      s3 == IF 0 \in forced THEN force_pred(s2, 0, TermTrue).self ELSE s2
      s4 == IF 1 \in forced THEN force_pred(s3, 1, TermTrue).self ELSE s3
  IN  push_clauses(s4, CexPool, 1)

InitCex ==
  /\ \E forced \in SUBSET {0, 1} : IsInstance(CexInstance(forced))
  /\ log = <<>>
  /\ ret = NoRet
  /\ data = <<>>

\* The maps of counterexamples handed to cexs_to_data, as the sequence of
\* entries their iterator yields: at most MaxCexs entries, one per clause.
CexsInputs ==
  LET Entries == [clause : 0 .. Len(clauses) - 1, cex : ModelInputs]
  IN  {cexs \in UNION {[1 .. n -> Entries] : n \in 0 .. MaxCexs} :
         \A i, j \in DOMAIN cexs : i # j => cexs[i].clause # cexs[j].clause}

CexsToData ==
  /\ ret = NoRet
  /\ \E cexs \in CexsInputs : \E fail_at \in 0 .. Len(cexs) :
       \E r \in {cexs_to_data(Self, data, cexs, fail_at)} :
         /\ data' = r.data
         /\ ret' = [op |-> "cexs_to_data", cexs |-> cexs, res |-> r.res,
                    chain |-> r.chain, trace |-> r.trace]
  /\ UNCHANGED <<factory, consts, preds, preds_term, max_pred_arity,
                 clauses, log>>

NextCex == CexsToData

SpecCex == InitCex /\ [][NextCex]_vars

(***************************************************************************)
(* Properties of the instance, continued.                                  *)
(***************************************************************************)
\* C9: eval_term_of(p, model) is Ok(None) when p is not forced; when p is
\* forced to t it is Ok(Some(b)) if t evaluates to B(b), an error if t
\* evaluates to N or to an integer or if the evaluation returns an error,
\* and never Ok(None).
C9_EvalTermOf ==
  ret.op = "eval_term_of" =>
    LET t == preds_term[ret.pred + 1]
        r == eval(factory, t.term, ret.model)
    IN  IF ~t.some THEN ret.out.res = "ok" /\ ~ret.out.some
        ELSE /\ ~(ret.out.res = "ok" /\ ~ret.out.some)
             /\ r.res = "ok" /\ r.val.tag = "B" =>
                  ret.out.res = "ok" /\ ret.out.some /\ ret.out.b = r.val.b
             /\ r.res = "ok" /\ r.val.tag \in {"N", "I"} => ret.out.res = "err"
             /\ r.res = "err" => ret.out.res = "err"

\* eval_term_of has returned an error on a predicate whose forced term
\* evaluates to N under the model.
C9_Witness ==
  /\ ret.op = "eval_term_of"
  /\ preds_term[ret.pred + 1].some
  /\ eval(factory, preds_term[ret.pred + 1].term, ret.model) = Ok(VN)
  /\ ret.out.res = "err"

(***************************************************************************)
(* Properties of cexs_to_data (specification SpecCex).                     *)
(***************************************************************************)
\* The calls made to the sink by the entries of a trace, in order.
RECURSIVE calls_of(_, _)
calls_of(trace, k) ==
  IF k > Len(trace) THEN <<>> ELSE trace[k].calls \o calls_of(trace, k + 1)

\* C10: each entry that cexs_to_data classifies has exactly one outcome,
\* given by its number of antecedents and its consequent: (0, None) makes
\* no sink call and returns an error; (1, None) makes one stage_raw_neg call
\* with the antecedent's predicate and values; (0, Some) makes one
\* stage_raw_pos call with the consequent's predicate and values; every
\* other combination makes one add_cstr call with the antecedents and the
\* consequent. The sink receives these calls and no other.
C10_Classification ==
  ret.op = "cexs_to_data" =>
    /\ \A k \in DOMAIN ret.trace :
         LET e == ret.trace[k]
             n == Len(e.antecedents)
             c == e.consequent
         IN  IF ~e.classified THEN e.calls = <<>>
             ELSE IF n = 0 /\ ~c.some
             THEN e.calls = <<>> /\ ret.res = "err" /\ k = Len(ret.trace)
             ELSE /\ Len(e.calls) = 1
                  /\ IF n = 1 /\ ~c.some
                     THEN /\ e.calls[1].call = "stage_raw_neg"
                          /\ e.calls[1].pred = e.antecedents[1].pred
                          /\ e.calls[1].args = e.antecedents[1].args
                     ELSE IF n = 0 /\ c.some
                     THEN /\ e.calls[1].call = "stage_raw_pos"
                          /\ e.calls[1].pred = c.pred
                          /\ e.calls[1].args = c.args
                     ELSE /\ e.calls[1].call = "add_cstr"
                          /\ e.calls[1].antecedents = e.antecedents
                          /\ e.calls[1].consequent = c
    /\ LET made == calls_of(ret.trace, 1)
       IN  /\ Len(made) <= Len(data)
           /\ SubSeq(data, Len(data) - Len(made) + 1, Len(data)) = made

\* One call has staged a negative sample for its first entry and has failed
\* on its second entry, a clause without antecedent nor consequent.
C10_Witness ==
  /\ ret.op = "cexs_to_data" /\ ret.res = "err"
  /\ Len(ret.trace) = 2
  /\ ret.trace[1].classified /\ ret.trace[2].classified
  /\ Len(ret.trace[1].calls) = 1
  /\ ret.trace[1].calls[1].call = "stage_raw_neg"
  /\ ret.trace[2].antecedents = <<>> /\ ~ret.trace[2].consequent.some
  /\ Len(data) = 1

\* The predicates a call to the sink mentions.
Mentioned(call) ==
  IF call.call = "add_cstr"
  THEN {call.antecedents[k].pred : k \in DOMAIN call.antecedents}
         \cup (IF call.consequent.some THEN {call.consequent.pred} ELSE {})
  ELSE {call.pred}

\* C11: after cexs_to_data, no call the sink has received mentions a forced
\* predicate, neither as an antecedent nor as the consequent.
C11_ForcedNotLearned ==
  ret.op = "cexs_to_data" =>
    \A k \in DOMAIN data : \A p \in Mentioned(data[k]) : ~preds_term[p + 1].some

(***************************************************************************)
(* The operator specification (SpecOp): Op::eval is called, once, on an    *)
(* operator and a vector of at most MaxOperands values.                    *)
(***************************************************************************)
\* The integers of the unit tests (cst_add, ..., cst_mod: 7 and 3) and of
\* the floor modulo scenario (-7).
TestInts == {7, 3, -7}

\* The values handed to Op::eval as operands.
IntInputs == (-MaxVal .. MaxVal) \cup TestInts
OperandInputs == {VB(TRUE), VB(FALSE), VN} \cup {VI(i) : i \in IntInputs}
OperandLists == UNION {[1 .. n -> OperandInputs] : n \in 0 .. MaxOperands}

InitOp ==
  /\ IsInstance(Instance_mk)
  /\ log = <<>>
  /\ ret = NoRet
  /\ data = <<>>

OpEval ==
  /\ ret = NoRet
  /\ \E o \in Op : \E args \in OperandLists :
       ret' = [op |-> "Op_eval", o |-> o, args |-> args, out |-> Op_eval(o, args)]
  /\ UNCHANGED <<factory, consts, preds, preds_term, max_pred_arity,
                 clauses, log, data>>

NextOp == OpEval

SpecOp == InitOp /\ [][NextOp]_vars

(***************************************************************************)
(* Properties of Op::eval (specification SpecOp).                          *)
(***************************************************************************)
IntOps == {"Add", "Sub", "Mul", "Div", "Mod", "Gt", "Ge", "Le", "Lt"}
BoolOps == {"Not", "And", "Or", "Impl"}

\* The operand v has the wrong tag for the operator o: a boolean where o
\* needs an integer, an integer where o needs a boolean.
WrongTag(o, v) ==
  \/ o \in IntOps /\ v.tag = "B"
  \/ o \in BoolOps /\ v.tag = "I"

\* C13: an operand of the wrong tag makes the evaluation an error, whatever
\* its position and whatever the other operands are.
C13_WrongTypeFatal ==
  (ret.op = "Op_eval" /\ \E k \in DOMAIN ret.args : WrongTag(ret.o, ret.args[k]))
    => ret.out.res = "err"

\* The operands are all among B(true), B(false) and N, and there is one.
ThreeValued(args) ==
  args # <<>> /\ \A k \in DOMAIN args : args[k].tag \in {"B", "N"}

\* C15: over operands among B(true), B(false) and N, `and` is B(false) if an
\* operand is B(false), B(true) if all are B(true) and N otherwise; `or` is
\* B(true) if an operand is B(true), B(false) if all are B(false) and N
\* otherwise; binary `=>` is B(true) if its rhs is B(true) or its lhs is
\* B(false), B(false) if its lhs is B(true) and its rhs B(false), and N
\* otherwise.
C15_ThreeValued ==
  (ret.op = "Op_eval" /\ ThreeValued(ret.args)) =>
    LET a == ret.args
        Has(v) == \E k \in DOMAIN a : a[k] = v
        All(v) == \A k \in DOMAIN a : a[k] = v
    IN  /\ ret.o = "And" =>
             ret.out = IF Has(VB(FALSE)) THEN Ok(VB(FALSE))
                       ELSE IF All(VB(TRUE)) THEN Ok(VB(TRUE))
                       ELSE Ok(VN)
        /\ ret.o = "Or" =>
             ret.out = IF Has(VB(TRUE)) THEN Ok(VB(TRUE))
                       ELSE IF All(VB(FALSE)) THEN Ok(VB(FALSE))
                       ELSE Ok(VN)
        /\ (ret.o = "Impl" /\ Len(a) = 2) =>
             ret.out = IF a[2] = VB(TRUE) \/ a[1] = VB(FALSE) THEN Ok(VB(TRUE))
                       ELSE IF a[1] = VB(TRUE) /\ a[2] = VB(FALSE)
                       THEN Ok(VB(FALSE))
                       ELSE Ok(VN)

\* `and` of N, B(true) and B(false), in this order, has evaluated to B(false).
C15_Witness ==
  /\ ret.op = "Op_eval" /\ ret.o = "And"
  /\ ret.args = <<VN, VB(TRUE), VB(FALSE)>>
  /\ ret.out = Ok(VB(FALSE))

\* The operands are all integers, and there is one.
AllIntegers(args) ==
  args # <<>> /\ \A k \in DOMAIN args : args[k].tag = "I"

\* The relation a comparison operator stands for.
Related(o, a, b) ==
  \/ o = "Gt" /\ a > b
  \/ o = "Ge" /\ a >= b
  \/ o = "Le" /\ a =< b
  \/ o = "Lt" /\ a < b

\* C16: a comparison operator applied to n >= 1 integers is B(true) if
\* every adjacent pair of operands satisfies its relation, B(false) if not.
C16_ComparisonChain ==
  (ret.op = "Op_eval" /\ ret.o \in {"Gt", "Ge", "Le", "Lt"}
     /\ AllIntegers(ret.args)) =>
    ret.out = Ok(VB(\A k \in 1 .. Len(ret.args) - 1 :
                      Related(ret.o, ret.args[k].i, ret.args[k + 1].i)))

\* (> 7 3 3) has evaluated to B(false): only the second pair fails.
C16_Witness ==
  /\ ret.op = "Op_eval" /\ ret.o = "Gt"
  /\ ret.args = <<VI(7), VI(3), VI(3)>>
  /\ ret.out = Ok(VB(FALSE))

\* The operators the claim calls strict.
StrictOps ==
  {"Add", "Sub", "Mul", "Div", "Mod", "Gt", "Ge", "Le", "Lt", "Eql", "Not"}

\* The operands of a strict operator o are integers (booleans for `not`,
\* values of one tag for `=`) or N, one at least is N, and their number is
\* one that o accepts.
WithN(o, args) ==
  /\ o \in StrictOps
  /\ args # <<>>
  /\ o = "Mod" => Len(args) = 2
  /\ o = "Not" => Len(args) = 1
  /\ \E k \in DOMAIN args : args[k] = VN
  /\ \A k \in DOMAIN args :
       \/ args[k] = VN
       \/ o = "Not" /\ args[k].tag = "B"
       \/ o = "Eql" /\ \A j \in DOMAIN args : args[j].tag \in {"N", args[k].tag}
       \/ o \notin {"Not", "Eql"} /\ args[k].tag = "I"

\* C17 as stated: a strict operator with an N operand evaluates to N,
\* whatever the position of the N operand and the values of the others.
C17_AsStated ==
  (ret.op = "Op_eval" /\ WithN(ret.o, ret.args)) => ret.out = Ok(VN)

\* The position of the first N operand.
FirstN(args) ==
  CHOOSE k \in DOMAIN args : args[k] = VN /\ \A j \in 1 .. k - 1 : args[j] # VN

\* C17, amended: with an N operand, + - * mod and not evaluate to N; / does
\* too unless one of its divisors before the first N is 0, and then the
\* evaluation aborts; a comparison is N if every adjacent pair of operands
\* before the first N satisfies its relation and B(false) if not; = is never
\* N: it is B(true) if all the operands are equal as values (N to N only)
\* and B(false) if not.
C17_NPropagation ==
  (ret.op = "Op_eval" /\ WithN(ret.o, ret.args)) =>
    LET a == ret.args
        n == FirstN(a)
    IN  /\ ret.o \in {"Add", "Sub", "Mul", "Mod", "Not"} => ret.out = Ok(VN)
        /\ ret.o = "Div" =>
             IF \E k \in 2 .. n - 1 : a[k].i = 0
             THEN ret.out.res = "panic"
             ELSE ret.out = Ok(VN)
        /\ ret.o \in {"Gt", "Ge", "Le", "Lt"} =>
             IF \A k \in 1 .. n - 2 : Related(ret.o, a[k].i, a[k + 1].i)
             THEN ret.out = Ok(VN)
             ELSE ret.out = Ok(VB(FALSE))
        /\ ret.o = "Eql" =>
             ret.out = Ok(VB(\A k \in DOMAIN a : a[k] = a[1]))

\* (> 7 3 N) has evaluated to N, and so has (- 3 N 7).
C17_Witness ==
  /\ ret.op = "Op_eval"
  /\ \/ ret.o = "Gt" /\ ret.args = <<VI(7), VI(3), VN>>
     \/ ret.o = "Sub" /\ ret.args = <<VI(3), VN, VI(7)>>
  /\ ret.out = Ok(VN)

\* C18: for integers a and b with b # 0, (mod a b) is I(r) where r is 0 or
\* has the sign of b, |r| < |b| and a - r is a multiple of b.
C18_ModFloor ==
  (ret.op = "Op_eval" /\ ret.o = "Mod" /\ Len(ret.args) = 2
     /\ AllIntegers(ret.args) /\ ret.args[2].i # 0) =>
    LET a == ret.args[1].i
        b == ret.args[2].i
        r == ret.out.val.i
    IN  /\ ret.out.res = "ok" /\ ret.out.val.tag = "I"
        /\ r = 0 \/ (r < 0) = (b < 0)
        /\ Abs(r) < Abs(b)
        /\ \E q \in -Abs(a) - 1 .. Abs(a) + 1 : a - r = q * b

\* (mod -7 3) has evaluated to I(2).
C18_Witness ==
  /\ ret.op = "Op_eval" /\ ret.o = "Mod"
  /\ ret.args = <<VI(-7), VI(3)>>
  /\ ret.out = Ok(VI(2))

\* The integer quotient of a by b # 0, rounded towards zero.
Quotient(a, b) ==
  CHOOSE q \in -Abs(a) .. Abs(a) :
    /\ Abs(q) * Abs(b) =< Abs(a)
    /\ Abs(a) < (Abs(q) + 1) * Abs(b)
    /\ q = 0 \/ (q < 0) = ((a < 0) # (b < 0))

\* The left fold of the integers a[k], a[k + 1], ... into acc.
RECURSIVE LeftFold(_, _, _, _)
LeftFold(o, a, k, acc) ==
  IF k > Len(a) THEN acc
  ELSE LeftFold(o, a, k + 1,
                IF o = "Add" THEN acc + a[k].i
                ELSE IF o = "Sub" THEN acc - a[k].i
                ELSE IF o = "Mul" THEN acc * a[k].i
                ELSE Quotient(acc, a[k].i))

\* No operand of / after the first is 0: its left fold has a value.
Divides(o, a) == o = "Div" => \A k \in 2 .. Len(a) : a[k].i # 0

\* C19: over integers a1 .. an, n >= 1, the evaluation returns an integer:
\* + gives a1 + ... + an, * gives a1 * ... * an, / gives the left fold
\* ((a1 / a2) / ...) / an of the quotient rounded towards zero, - gives -a1
\* when n = 1 and the left fold ((a1 - a2) - ...) - an when n >= 2.
C19_ArithmeticFolds ==
  (ret.op = "Op_eval" /\ ret.o \in {"Add", "Sub", "Mul", "Div"}
     /\ AllIntegers(ret.args)) =>
    LET a == ret.args
    IN  /\ ret.out.res = "ok" /\ ret.out.val.tag = "I"
        /\ Divides(ret.o, a) =>
             ret.out.val.i = IF ret.o = "Sub" /\ Len(a) = 1 THEN -a[1].i
                             ELSE LeftFold(ret.o, a, 2, a[1].i)

\* What the folds do give: the value above when the fold has one, and no
\* value (the evaluation aborts) when a divisor is 0.
C19_FoldsWhereDefined ==
  (ret.op = "Op_eval" /\ ret.o \in {"Add", "Sub", "Mul", "Div"}
     /\ AllIntegers(ret.args)) =>
    LET a == ret.args
    IN  IF Divides(ret.o, a)
        THEN ret.out = Ok(VI(IF ret.o = "Sub" /\ Len(a) = 1 THEN -a[1].i
                             ELSE LeftFold(ret.o, a, 2, a[1].i)))
        ELSE ret.out.res = "panic"

(***************************************************************************)
(* The term specification (SpecTerm): on the instance that holds v0, true, *)
(* false and (> v0 0), one term is built by op, from any operator and at   *)
(* most MaxArgs terms of the factory; then it is evaluated under a model,  *)
(* or a top term over a term of the factory is tested.                     *)
(***************************************************************************)
InitTerm ==
  /\ IsInstance(Prelude)
  /\ log = <<>>
  /\ ret = NoRet
  /\ data = <<>>

TermOp ==
  /\ ret = NoRet
  /\ \E o \in Op : \E args \in ArgLists(factory, MaxArgs) :
       \E r \in {op(factory, o, args)} :
         /\ factory' = r.factory
         /\ ret' = [op |-> "op", o |-> o, args |-> args, term |-> r.term]
  /\ UNCHANGED <<consts, preds, preds_term, max_pred_arity, clauses, log, data>>

TermEval ==
  /\ ret.op = "op"
  /\ \E model \in ModelInputs :
       ret' = [op |-> "eval", o |-> ret.o, args |-> ret.args,
               term |-> ret.term, model |-> model,
               out |-> eval(factory, ret.term, model)]
  /\ UNCHANGED <<factory, consts, preds, preds_term, max_pred_arity,
                 clauses, log, data>>

\* The top terms over the term t.
TTermInputs(t) == {P(0, <<t>>), N(t), T(t)}

TTermIs ==
  /\ ret.op = "op"
  /\ \E t \in Terms(factory) : \E tterm \in TTermInputs(t) :
       ret' = [op |-> "is_true", tterm |-> tterm,
               is_true |-> TTerm_is_true(factory, tterm),
               is_false |-> TTerm_is_false(factory, tterm)]
  /\ UNCHANGED <<factory, consts, preds, preds_term, max_pred_arity,
                 clauses, log, data>>

NextTerm == TermOp \/ TermEval \/ TTermIs

SpecTerm == InitTerm /\ [][NextTerm]_vars

(***************************************************************************)
(* Properties of RTerm::eval and of the top terms (specification SpecTerm). *)
(***************************************************************************)
\* The type of the term t of the factory f under a model: "Int" or "Bool"
\* when every variable of t is in range of the model and bound to a value
\* of the tag its place needs, and every operand has the type its operator
\* needs (one type for all the operands of =); "none" if not. The number of
\* operands is not looked at.
RECURSIVE TypeOf(_, _, _)
TypeOf(f, t, model) ==
  LET r == get(f, t)
      Operands(typ) == \A k \in DOMAIN r.args : TypeOf(f, r.args[k], model) = typ
  IN  IF r.tag = "Int" THEN "Int"
      ELSE IF r.tag = "Bool" THEN "Bool"
      ELSE IF r.tag = "Var"
      THEN IF r.var >= Len(model) THEN "none"
           ELSE IF model[r.var + 1].tag = "I" THEN "Int"
           ELSE IF model[r.var + 1].tag = "B" THEN "Bool"
           ELSE "none"
      ELSE IF r.op \in {"Add", "Sub", "Mul", "Div", "Mod"}
      THEN IF Operands("Int") THEN "Int" ELSE "none"
      ELSE IF r.op \in {"Gt", "Ge", "Le", "Lt"}
      THEN IF Operands("Int") THEN "Bool" ELSE "none"
      ELSE IF r.op = "Eql"
      THEN IF Operands("Int") \/ Operands("Bool") THEN "Bool" ELSE "none"
      ELSE IF Operands("Bool") THEN "Bool" ELSE "none"

\* C12: the evaluation of a term whose variables are all in range of the
\* model and bound to values of the right tag returns a value: it neither
\* returns an error nor aborts, whatever the divisors evaluate to and
\* whatever the number of operands.
C12_Totality ==
  (ret.op = "eval" /\ TypeOf(factory, ret.term, ret.model) # "none")
    => ret.out.res = "ok"

\* The term is an application with a number of operands its operator
\* refuses: none, other than 2 for mod and =>, other than 1 for not.
WrongArity(r) ==
  /\ r.tag = "App"
  /\ \/ r.args = <<>>
     \/ r.op \in {"Mod", "Impl"} /\ Len(r.args) # 2
     \/ r.op = "Not" /\ Len(r.args) # 1

\* C14: the evaluation of an application with a wrong number of operands
\* returns an error that names an operator being evaluated; it neither
\* returns a value nor aborts.
C14_WrongArity ==
  (ret.op = "eval" /\ WrongArity(get(factory, ret.term))) =>
    /\ ret.out.res = "err"
    /\ ret.out.chain[1].msg = "while evaluating operator"

\* C20: a top term is true iff it is T(true) or N(false), false iff it is
\* T(false) or N(true); a predicate application is neither, a T or N over a
\* term that is not a boolean constant is neither, and no top term is both.
C20_TopTermTruth ==
  ret.op = "is_true" =>
    LET tt == ret.tterm
        t == get(factory, tt.term)
    IN  /\ ret.is_true <=> \/ tt.kind = "T" /\ t = RBool(TRUE)
                           \/ tt.kind = "N" /\ t = RBool(FALSE)
        /\ ret.is_false <=> \/ tt.kind = "T" /\ t = RBool(FALSE)
                            \/ tt.kind = "N" /\ t = RBool(TRUE)
        /\ tt.kind = "P" => ~ret.is_true /\ ~ret.is_false
        /\ t.tag # "Bool" => ~ret.is_true /\ ~ret.is_false
        /\ ~(ret.is_true /\ ret.is_false)

\* N(false) has been found true and not false.
C20_Witness ==
  /\ ret.op = "is_true"
  /\ ret.tterm = N(TermFalse)
  /\ ret.is_true /\ ~ret.is_false

(***************************************************************************)
(* Properties of cexs_to_data, continued (specification SpecCex).          *)
(***************************************************************************)
\* The values of the arguments of a predicate application under a cex.
ValuesOf(args, cex) == [k \in DOMAIN args |-> eval(factory, args[k], cex).val]

\* The lhs top terms that count: applications of predicates not forced.
Learnt(lhs) ==
  SelectSeq(lhs, LAMBDA tt : tt.kind = "P" /\ ~preds_term[tt.pred + 1].some)

\* C25: for every entry whose arguments all evaluate, the antecedents are
\* the (pred, values) of the lhs applications of predicates not forced, in
\* lhs order, values[k] being the value of argument k under the cex; T and
\* N atoms and applications of forced predicates give nothing; the
\* consequent is Some((pred, values)) iff the rhs is an application.
C25_Antecedents ==
  ret.op = "cexs_to_data" =>
    \A n \in DOMAIN ret.trace :
      LET e == ret.trace[n]
          cl == clauses[e.clause + 1]
          apps == Learnt(cl.lhs)
      IN  e.classified =>
            /\ e.antecedents =
                 [k \in DOMAIN apps |->
                    [pred |-> apps[k].pred, args |-> ValuesOf(apps[k].args, e.cex)]]
            /\ \A k \in DOMAIN e.antecedents :
                 Len(e.antecedents[k].args) = Len(apps[k].args)
            /\ e.consequent.some <=> cl.rhs.kind = "P"
            /\ cl.rhs.kind = "P" =>
                 e.consequent = SomeC(cl.rhs.pred, ValuesOf(cl.rhs.args, e.cex))

\* An entry of the clause p0(v0), not (> v0 0), p0(v0) => false, p0 not
\* being forced, has two antecedents and no consequent; or an entry of the
\* clause p0(v0), p1(v0, (> v0 0)) => false, p1 only being forced, has one.
C25_Witness ==
  /\ ret.op = "cexs_to_data"
  /\ \E n \in DOMAIN ret.trace :
       LET e == ret.trace[n]
           cl == clauses[e.clause + 1]
       IN  /\ e.classified /\ ~e.consequent.some
           /\ \/ cl.lhs = <<App0, N(TermGt), App0>> /\ Len(e.antecedents) = 2
              \/ /\ cl.lhs = <<App0, App1>> /\ Len(e.antecedents) = 1
                 /\ preds_term[2].some

\* C29: when cexs_to_data fails on an entry it returns the error at once:
\* the entries before it have all been treated and what they sent to the
\* sink is still there, no entry after it is treated, and the instance is
\* the same after the call as before, whether the call fails or not.
C29_NotAtomic ==
  /\ [](ret.op = "cexs_to_data" =>
          /\ Len(ret.trace) =< Len(ret.cexs)
          /\ \A n \in DOMAIN ret.trace :
               /\ ret.trace[n].clause = ret.cexs[n].clause
               /\ ret.trace[n].cex = ret.cexs[n].cex
          /\ data = calls_of(ret.trace, 1)
          /\ \A n \in 1 .. Len(ret.trace) - 1 :
               /\ ret.trace[n].classified
               /\ Len(ret.trace[n].calls) = 1 /\ ret.trace[n].calls[1].ok
          /\ ret.res = "ok" => Len(ret.trace) = Len(ret.cexs)
          /\ ret.res # "ok" =>
               LET e == ret.trace[Len(ret.trace)]
               IN  /\ ret.trace # <<>>
                   /\ \/ ~e.classified /\ e.calls = <<>>
                      \/ e.classified /\ e.calls = <<>>
                           /\ e.antecedents = <<>> /\ ~e.consequent.some
                      \/ e.classified /\ Len(e.calls) = 1 /\ ~e.calls[1].ok)
  /\ [][ret'.op = "cexs_to_data" =>
          UNCHANGED <<factory, consts, preds, preds_term, max_pred_arity,
                      clauses>>]_vars

\* A call has failed on the evaluation of an argument of its second entry;
\* the sample staged for its first entry is in the sink.
C29_Witness ==
  /\ ret.op = "cexs_to_data" /\ ret.res = "err"
  /\ Len(ret.cexs) = 2 /\ Len(ret.trace) = 2
  /\ ~ret.trace[2].classified
  /\ Len(data) = 1 /\ data[1].ok

(***************************************************************************)
(* Properties of the instance, continued (specification SpecInst).         *)
(***************************************************************************)
\* C28: a predicate forced to t stays forced to t through every push_pred,
\* force_pred (succeeding or failing), push_clause and forget_clause:
\* term_of never goes back to None and never changes; preds only grows, and
\* the predicates it holds keep their index.
C28_ForcedStaysForced ==
  [][/\ \A p \in 0 .. Len(preds) - 1 :
          term_of(Self, p).some =>
            /\ p < Len(preds_term')
            /\ preds_term'[p + 1] = term_of(Self, p)
     /\ Len(preds') >= Len(preds)
     /\ \A p \in DOMAIN preds : preds'[p] = preds[p] /\ preds[p].idx = p - 1]_vars

\* A second predicate has been pushed after the first one was forced.
C28_Witness ==
  /\ ret.op = "push_pred" /\ ret.idx = 1
  /\ term_of(Self, 0).some
  /\ ~term_of(Self, 1).some

(***************************************************************************)
(* Properties of RTerm::eval, continued (specification SpecTerm).          *)
(***************************************************************************)
\* C30: when x evaluates to B(b) or to N under a model, the term op answers
\* for (and x) and for (or x) evaluates, under that model, to what Op::eval
\* gives for the operator and the one operand eval(x): B(b) for B(b), N for
\* N.
C30_UnaryCollapse ==
  (ret.op = "eval" /\ ret.o \in {"And", "Or"} /\ Len(ret.args) = 1) =>
    LET x == eval(factory, ret.args[1], ret.model)
    IN  (x.res = "ok" /\ x.val.tag \in {"B", "N"}) =>
          /\ ret.out = Op_eval(ret.o, <<x.val>>)
          /\ ret.out = Ok(x.val)

\* (and (> v0 0)) has evaluated to B(true) under v0 = 1.
C30_Witness ==
  /\ ret.op = "eval" /\ ret.o = "And" /\ ret.args = <<TermGt>>
  /\ ret.model[1] = VI(1)
  /\ ret.out = Ok(VB(TRUE))

\* The recursive reference evaluator: Var(v) is model[v], a constant is its
\* value, an application is its operator applied to the values of its
\* operands, all evaluated from left to right before the operator is applied;
\* the first operand that fails is the result.
RECURSIVE ref_eval(_, _, _)
ref_eval(f, t, model) ==
  LET r == get(f, t)
  IN  IF r.tag = "Var"
      THEN IF r.var >= Len(model) THEN Panic("index out of bounds")
           ELSE Ok(model[r.var + 1])
      ELSE IF r.tag = "Int" THEN Ok(VI(r.int))
      ELSE IF r.tag = "Bool" THEN Ok(VB(r.bool))
      ELSE LET vals == [k \in DOMAIN r.args |-> ref_eval(f, r.args[k], model)]
               bad == {k \in DOMAIN r.args : vals[k].res # "ok"}
           IN  IF bad # {}
               THEN vals[CHOOSE k \in bad : \A j \in bad : k =< j]
               ELSE chain_err(Op_eval(r.op, [k \in DOMAIN r.args |-> vals[k].val]),
                              Msg("while evaluating operator", r.op))

\* C26: for every term and every model, RTerm::eval answers what the
\* recursive reference evaluator answers.
C26_AgreesWithReference ==
  ret.op = "eval" => ret.out = ref_eval(factory, ret.term, ret.model)

\* The same on the terms whose applications all have an operand.
RECURSIVE HasOperands(_, _)
HasOperands(f, t) ==
  get(f, t).tag = "App" =>
    /\ get(f, t).args # <<>>
    /\ \A k \in DOMAIN get(f, t).args : HasOperands(f, get(f, t).args[k])

C26_AgreesOnOperands ==
  (ret.op = "eval" /\ HasOperands(factory, ret.term)) =>
    ret.out = ref_eval(factory, ret.term, ret.model)

(***************************************************************************)
(* The evaluation loop, one iteration at a time (SpecLoop). The factory    *)
(* holds the terms of the test models: v0, v1, v2, lhs (the sum of 7 - v1,  *)
(* v1 times 2 and - v2), rhs (v2 times 3), lhs > rhs, and the conjunction  *)
(* of v0 and lhs > rhs. One term is evaluated under one model, an          *)
(* iteration of the loop eval or of the loop go_up per step.               *)
(***************************************************************************)
\* The constructor calls of the test, in the order their results are needed;
\* an operand is the uid of an earlier result (uid 0 and 1 are the constants
\* of Instance::mk).
ScenarioCalls ==
  << [k |-> "var", v |-> 0, i |-> 0, o |-> "", args |-> <<>>],
     [k |-> "var", v |-> 1, i |-> 0, o |-> "", args |-> <<>>],
     [k |-> "var", v |-> 2, i |-> 0, o |-> "", args |-> <<>>],
     [k |-> "int", v |-> 0, i |-> 7, o |-> "", args |-> <<>>],
     [k |-> "op", v |-> 0, i |-> 0, o |-> "Sub", args |-> <<5, 3>>],
     [k |-> "int", v |-> 0, i |-> 2, o |-> "", args |-> <<>>],
     [k |-> "op", v |-> 0, i |-> 0, o |-> "Mul", args |-> <<3, 7>>],
     [k |-> "op", v |-> 0, i |-> 0, o |-> "Sub", args |-> <<4>>],
     [k |-> "op", v |-> 0, i |-> 0, o |-> "Add", args |-> <<6, 8, 9>>],
     [k |-> "int", v |-> 0, i |-> 3, o |-> "", args |-> <<>>],
     [k |-> "op", v |-> 0, i |-> 0, o |-> "Mul", args |-> <<4, 11>>],
     [k |-> "op", v |-> 0, i |-> 0, o |-> "Gt", args |-> <<10, 12>>],
     [k |-> "op", v |-> 0, i |-> 0, o |-> "And", args |-> <<2, 13>>] >>

RECURSIVE scenario(_, _)
scenario(f, n) ==
  IF n = 0 THEN f
  ELSE LET c == ScenarioCalls[n]
       IN  IF c.k = "var" THEN var(scenario(f, n - 1), c.v).factory
           ELSE IF c.k = "int" THEN int(scenario(f, n - 1), c.i).factory
           ELSE op(scenario(f, n - 1), c.o, c.args).factory

Scenario == [Instance_mk EXCEPT !.factory = scenario(@, Len(ScenarioCalls))]

TermLhs == 10
TermRhs == 12
TermAnd == 14

\* model_1 and model_2 of the test, then a model that binds v1 to a Boolean,
\* a model without a value for v0 and v1, and a model that binds v0 only.
LoopModels ==
  { <<VB(TRUE), VI(2), VI(3)>>, <<VB(TRUE), VI(7), VI(0)>>,
    <<VB(TRUE), VB(TRUE), VI(3)>>, <<VN, VN, VI(0)>>, <<VB(TRUE)>> }

InitLoop ==
  /\ IsInstance(Scenario)
  /\ log = <<>>
  /\ ret = NoRet
  /\ data = <<>>

\* Where the current term sits in the term under evaluation: the operand
\* numbers from the root, read off the frames of the stack.
path(st) == [i \in DOMAIN st.stack |-> Len(st.stack[i].values) + 1]

\* The entry of RTerm::eval.
LoopStart ==
  /\ ret = NoRet
  /\ \E term \in Terms(factory) : \E model \in LoopModels :
       ret' = [op |-> "loop", term |-> term, model |-> model,
               st |-> eval_start(term), steps |-> 0, visits |-> <<>>]
  /\ UNCHANGED <<factory, consts, preds, preds_term, max_pred_arity, clauses, log, data>>

\* One iteration; visits lists the places whose evaluation has begun.
LoopStep ==
  /\ ret.op = "loop"
  /\ ret.st.pc # "done"
  /\ ret' = [ret EXCEPT
               !.st = eval_step(factory, ret.model, @),
               !.steps = @ + 1,
               !.visits = IF ret.st.pc = "eval" THEN Append(@, path(ret.st)) ELSE @]
  /\ UNCHANGED <<factory, consts, preds, preds_term, max_pred_arity, clauses, log, data>>

NextLoop == LoopStart \/ LoopStep

SpecLoop == InitLoop /\ [][NextLoop]_vars

\* The loop runs in the thread of its caller and always takes its next step.
SpecLoopFair == SpecLoop /\ WF_vars(LoopStep)

(***************************************************************************)
(* Properties of the evaluation loop (specification SpecLoop).             *)
(***************************************************************************)
Done == ret.op = "loop" /\ ret.st.pc = "done"

\* On the terms of the test, whose applications all have an operand, the loop
\* ends on what the reference evaluator answers.
C26_LoopAgrees ==
  Done => ret.st.result = ref_eval(factory, ret.term, ret.model)

\* lhs is 6 under [true, 2, 3] and 14 under [true, 7, 0].
C26_Scenario ==
  (Done /\ ret.term = TermLhs) =>
    /\ ret.model = <<VB(TRUE), VI(2), VI(3)>> => ret.st.result = Ok(VI(6))
    /\ ret.model = <<VB(TRUE), VI(7), VI(0)>> => ret.st.result = Ok(VI(14))

\* The places of the term t: the paths of operand numbers from its root.
RECURSIVE Positions(_, _)
Positions(f, t) ==
  {<<>>} \cup UNION {{<<k>> \o p : p \in Positions(f, get(f, t).args[k])} :
                       k \in DOMAIN get(f, t).args}

Size(f, t) == Cardinality(Positions(f, t))

\* How many times the evaluation of the place p has begun.
Visits(p) == Cardinality({i \in DOMAIN ret.visits : ret.visits[i] = p})

\* Every iteration does one of: go down into the first operand of an
\* application (a new frame, a place not visited before); evaluate a leaf;
\* complete the top frame (its operator is applied, the frame is gone);
\* advance the top frame to its next operand (a place not visited before);
\* return the value at the top level; abort on a variable outside the model.
StepKinds ==
  (ret.op = "loop" /\ ret'.op = "loop") =>
    LET st == ret.st
        nx == ret'.st
    IN  \/ /\ st.pc = "eval" /\ nx.pc = "eval"
           /\ Len(nx.stack) = Len(st.stack) + 1
           /\ nx.stack[Len(nx.stack)].values = <<>>
           /\ Visits(path(nx)) = 0
        \/ /\ st.pc = "eval" /\ nx.pc = "go_up"
           /\ get(factory, st.current).tag # "App"
           /\ nx.stack = st.stack
        \/ /\ st.pc = "go_up" /\ nx.pc \in {"go_up", "done"}
           /\ st.stack # <<>>
           /\ st.stack[Len(st.stack)].to_do = <<>>
           /\ nx.stack = SubSeq(st.stack, 1, Len(st.stack) - 1)
           /\ nx.pc = "done" => nx.result.res # "ok"
        \/ /\ st.pc = "go_up" /\ nx.pc = "eval"
           /\ Len(nx.stack) = Len(st.stack)
           /\ nx.stack[Len(nx.stack)].to_do = Tail(st.stack[Len(st.stack)].to_do)
           /\ Visits(path(nx)) = 0
        \/ /\ st.pc = "go_up" /\ nx.pc = "done"
           /\ st.stack = <<>>
           /\ nx.result = Ok(st.evaled)
        \/ /\ st.pc = "eval" /\ nx.pc = "done"
           /\ nx.result.res = "panic"

\* C27: on a term whose applications all have an operand the loop ends
\* (with a value, an error, or the abort on a variable outside the model)
\* after at most two iterations per place of the term; every iteration goes
\* down into a place not yet visited, evaluates a leaf, completes or advances
\* one frame, or returns; a value is returned exactly when the loop goes up
\* with an empty stack; the evaluation of each operand begins at most once,
\* and exactly once when a value is returned.
C27_Terminates ==
  /\ [](ret.op = "loop" =>
          /\ ret.steps =< 2 * Size(factory, ret.term)
          /\ \A p \in Positions(factory, ret.term) : Visits(p) =< 1
          /\ \A i \in DOMAIN ret.visits : ret.visits[i] \in Positions(factory, ret.term)
          /\ (ret.st.pc = "done" /\ ret.st.result.res = "ok") =>
               /\ ret.st.stack = <<>>
               /\ ret.steps = 2 * Size(factory, ret.term)
               /\ \A p \in Positions(factory, ret.term) : Visits(p) = 1)
  /\ [][StepKinds]_vars
  /\ (ret.op = "loop") ~> Done

\* The conjunction of v0 and lhs > rhs has evaluated to true under
\* [true, 7, 0]: 15 places, each visited once, in 30 iterations.
C27_Witness ==
  /\ Done
  /\ ret.term = TermAnd
  /\ ret.model = <<VB(TRUE), VI(7), VI(0)>>
  /\ ret.st.result = Ok(VB(TRUE))
  /\ ret.steps = 30
  /\ Len(ret.visits) = 15

\* C27 as stated: when the loop has returned, with a value or with an error,
\* each operand of each application has been evaluated exactly once.
C27_AsStated ==
  (Done /\ ret.st.result.res \in {"ok", "err"}) =>
    \A p \in Positions(factory, ret.term) : Visits(p) = 1

(***************************************************************************)
(* Writing terms and clauses for the solver. A text is the sequence of its *)
(* pieces: a parenthesis, a space, a keyword or an operator, the letter v, *)
(* a sign, a decimal digit.                                                *)
(***************************************************************************)
\* Op::as_str
as_str(o) ==
  CASE o = "Add" -> "+" [] o = "Sub" -> "-" [] o = "Mul" -> "*"
    [] o = "Div" -> "/" [] o = "Mod" -> "mod"
    [] o = "Gt" -> ">" [] o = "Ge" -> ">=" [] o = "Le" -> "<="
    [] o = "Lt" -> "<" [] o = "Eql" -> "="
    [] o = "Not" -> "not" [] o = "And" -> "and" [] o = "Or" -> "or"
    [] o = "Impl" -> "=>"

\* The decimal digits of n >= 0, as `{}` writes them.
RECURSIVE digits(_)
digits(n) ==
  LET d == <<"0", "1", "2", "3", "4", "5", "6", "7", "8", "9">>[(n % 10) + 1]
  IN  IF n < 10 THEN <<d>> ELSE Append(digits(n \div 10), d)

\* An integer as `{}` writes it.
write_int(i) == IF i < 0 THEN <<"-">> \o digits(0 - i) ELSE digits(i)

\* The texts ts[k], ts[k + 1], ... one after the other, each after sep.
RECURSIVE write_all(_, _, _)
write_all(ts, sep, k) ==
  IF k > Len(ts) THEN <<>> ELSE sep \o ts[k] \o write_all(ts, sep, k + 1)

\* RTerm::write; write_var maps a variable to the text written for it.
RECURSIVE RTerm_write(_, _, _)
RTerm_write(f, t, write_var) ==
  LET r == get(f, t)
  IN  IF r.tag = "Var" THEN write_var[r.var]
      ELSE IF r.tag = "Int" THEN write_int(r.int)
      ELSE IF r.tag = "Bool" THEN <<IF r.bool THEN "true" ELSE "false">>
      ELSE <<"(", as_str(r.op)>>
           \o write_all([k \in DOMAIN r.args |-> RTerm_write(f, r.args[k], write_var)],
                        <<" ">>, 1)
           \o <<")">>

\* The closure |w, v| write!(w, "v{}", v)
write_v == [v \in Nat |-> <<"v">> \o digits(v)]

\* The closure expr_to_smt2 writes a predicate application with: the
\* candidate of the predicate, its variable v written as the argument
\* args[v] is.
write_prd(f, cands, prd, args) ==
  RTerm_write(f, cands[prd + 1].term,
              [v \in 0 .. Len(args) - 1 |-> RTerm_write(f, args[v + 1], write_v)])

\* TTerm::write, as expr_to_smt2 calls it through TTerm::write_smt2.
TTerm_write_smt2(f, tterm, cands) ==
  IF tterm.kind = "P" THEN write_prd(f, cands, tterm.pred, tterm.args)
  ELSE IF tterm.kind = "N"
  THEN <<"(", "not", " ">> \o RTerm_write(f, tterm.term, write_v) \o <<")">>
  ELSE RTerm_write(f, tterm.term, write_v)

\* An expr_to_smt2 that does not close the implication.
expr_to_smt2_open(f, clause, cands) ==
  <<"(", "not", " ">>
  \o (IF clause.lhs = <<>> THEN <<>> ELSE <<"(", "=>", " ", "(", "and">>)
  \o write_all([k \in DOMAIN clause.lhs |-> TTerm_write_smt2(f, clause.lhs[k], cands)],
               <<" ">>, 1)
  \o (IF clause.lhs = <<>> THEN <<>> ELSE <<")", " ">>)
  \o TTerm_write_smt2(f, clause.rhs, cands)
  \o <<")">>

\* Clause::expr_to_smt2
expr_to_smt2(f, clause, cands) ==
  <<"(", "not", " ">>
  \o (IF clause.lhs = <<>> THEN <<>> ELSE <<"(", "=>", " ", "(", "and">>)
  \o write_all([k \in DOMAIN clause.lhs |-> TTerm_write_smt2(f, clause.lhs[k], cands)],
               <<" ">>, 1)
  \o (IF clause.lhs = <<>> THEN <<>> ELSE <<")", " ">>)
  \o TTerm_write_smt2(f, clause.rhs, cands)
  \o (IF clause.lhs = <<>> THEN <<>> ELSE <<")">>)
  \o <<")">>

(***************************************************************************)
(* The solver specification (SpecSmt): one clause over the terms of the    *)
(* test models and the predicates p (one argument) and q (two arguments)   *)
(* is written for the solver under one map of candidates.                  *)
(***************************************************************************)
MaxLhs == 2

\* The top terms of the clauses: lhs > rhs, the negation of v0, p applied to
\* v1 and q applied to v2 and rhs.
SmtTTerms == {T(13), N(2), P(0, <<3>>), P(1, <<4, TermRhs>>)}

SmtLhs == UNION {[1 .. k -> SmtTTerms] : k \in 0 .. MaxLhs}

\* The candidates: v0 or the constant 1 for p; 7 - v1 or v1 times 2 for q.
SmtCands == {<<Some(a), Some(b)>> : a \in {2, 0}, b \in {6, 8}}

SmtCtx == [i \in 1 .. 3 |-> [name |-> <<"x", i - 1>>, idx |-> i - 1, typ |-> "Int"]]

InitSmt ==
  /\ IsInstance(push_pred(push_pred(Scenario, "p", <<"Int">>).self,
                          "q", <<"Int", "Int">>).self)
  /\ log = <<>>
  /\ ret = NoRet
  /\ data = <<>>

ExprToSmt2 ==
  /\ ret = NoRet
  /\ \E lhs \in SmtLhs : \E rhs \in SmtTTerms : \E cands \in SmtCands :
       ret' = [op |-> "expr_to_smt2", clause |-> Clause_mk(SmtCtx, lhs, rhs),
               cands |-> cands,
               out |-> expr_to_smt2(factory, Clause_mk(SmtCtx, lhs, rhs), cands)]
  /\ UNCHANGED <<factory, consts, preds, preds_term, max_pred_arity, clauses, log, data>>

NextSmt == ExprToSmt2

SpecSmt == InitSmt /\ [][NextSmt]_vars

(***************************************************************************)
(* Properties of the text written for the solver (specification SpecSmt).  *)
(***************************************************************************)
\* The term t of the factory f as a tree.
RECURSIVE Tree(_, _)
Tree(f, t) ==
  [node |-> get(f, t),
   sub |-> [k \in DOMAIN get(f, t).args |-> Tree(f, get(f, t).args[k])]]

\* The tree b with the trees as[v + 1] in the place of its variables v.
RECURSIVE Subst(_, _)
Subst(b, as) ==
  IF b.node.tag = "Var" THEN as[b.node.var + 1]
  ELSE [node |-> b.node, sub |-> [k \in DOMAIN b.sub |-> Subst(b.sub[k], as)]]

\* A tree in the syntax of the solver, its variables as v<idx>.
RECURSIVE Render(_)
Render(b) ==
  IF b.node.tag = "Var" THEN <<"v">> \o digits(b.node.var)
  ELSE IF b.node.tag = "Int" THEN write_int(b.node.int)
  ELSE IF b.node.tag = "Bool" THEN <<IF b.node.bool THEN "true" ELSE "false">>
  ELSE <<"(", as_str(b.node.op)>>
       \o write_all([k \in DOMAIN b.sub |-> Render(b.sub[k])], <<" ">>, 1)
       \o <<")">>

\* What a top term stands for under the candidates: the body of the
\* candidate with the arguments of the application substituted for its
\* variables, the negation of a term, a term.
Embedded(f, tterm, cands) ==
  IF tterm.kind = "P"
  THEN Render(Subst(Tree(f, cands[tterm.pred + 1].term),
                    [k \in DOMAIN tterm.args |-> Tree(f, tterm.args[k])]))
  ELSE IF tterm.kind = "N"
  THEN <<"(", "not", " ">> \o Render(Tree(f, tterm.term)) \o <<")">>
  ELSE Render(Tree(f, tterm.term))

\* (not (=> (and lhs-tterms...) rhs-tterm))
Implication(f, clause, cands) ==
  <<"(", "not", " ", "(", "=>", " ", "(", "and">>
  \o write_all([k \in DOMAIN clause.lhs |-> Embedded(f, clause.lhs[k], cands)],
               <<" ">>, 1)
  \o <<")", " ">> \o Embedded(f, clause.rhs, cands) \o <<")", ")">>

\* The number of parentheses open after the first n pieces of the text.
Depth(text, n) ==
  Cardinality({i \in 1 .. n : text[i] = "("})
  - Cardinality({i \in 1 .. n : text[i] = ")"})

Balanced(text) ==
  /\ Depth(text, Len(text)) = 0
  /\ \A n \in 1 .. Len(text) - 1 : Depth(text, n) > 0

\* C23: the text expr_to_smt2 writes for a clause has balanced parentheses;
\* for a clause with one or more lhs top terms it is
\* (not (=> (and lhs-tterms...) rhs-tterm)), the lhs top terms in the order
\* of the clause, and for a clause without lhs top terms it is
\* (not rhs-tterm); variables are written v<idx> and a predicate application
\* is written as the body of its candidate with the arguments of the
\* application substituted for the variables of the candidate.
C23_SmtEmbedding ==
  ret.op = "expr_to_smt2" =>
    /\ Balanced(ret.out)
    /\ ret.clause.lhs # <<>> => ret.out = Implication(factory, ret.clause, ret.cands)
    /\ ret.clause.lhs = <<>> =>
         ret.out = <<"(", "not", " ">>
                   \o Embedded(factory, ret.clause.rhs, ret.cands) \o <<")">>

\* The clause q(v2, rhs) /\ not v0 => p(v1) under the candidates v0 for p and
\* 7 - v1 for q: rhs, v2 times 3, takes the place of v1 in the body of q.
C23_Witness ==
  /\ ret.op = "expr_to_smt2"
  /\ ret.clause.lhs = <<P(1, <<4, TermRhs>>), N(2)>>
  /\ ret.clause.rhs = P(0, <<3>>)
  /\ ret.cands = <<Some(2), Some(6)>>
  /\ ret.out = <<"(", "not", " ", "(", "=>", " ", "(", "and", " ",
                 "(", "-", " ", "7", " ", "(", "*", " ", "v", "2", " ", "3", ")", ")",
                 " ", "(", "not", " ", "v", "0", ")", ")", " ", "v", "1", ")", ")">>

\* C23 as stated: whatever the number of lhs top terms, zero included, the
\* text is (not (=> (and lhs-tterms...) rhs-tterm)).
C23_AsStated ==
  ret.op = "expr_to_smt2" => ret.out = Implication(factory, ret.clause, ret.cands)

(***************************************************************************)
(* The concurrent specification (SpecConc): threads call the constructors  *)
(* of one instance. A call asks the factory for one structure; the factory *)
(* takes its write lock, looks the structure up, inserts it when it is not *)
(* there, and releases the lock when it returns the term. ret holds the    *)
(* lock (0 when it is free, else the thread that holds it) and, for each   *)
(* thread, where it is in its call (pc), the structure it asks for (req),  *)
(* the term it got (term) and the number of calls it has completed (n).    *)
(***************************************************************************)
MaxThreads == 2

Threads == 1 .. MaxThreads

\* The calls of the threads: var(0), bool(true), (+ 1 0) and (and), over the
\* constants 1 and 0 of Instance::mk, which every thread holds.
ConcCalls ==
  { [k |-> "var", v |-> 0, b |-> FALSE, o |-> "", args |-> <<>>],
    [k |-> "bool", v |-> 0, b |-> TRUE, o |-> "", args |-> <<>>],
    [k |-> "op", v |-> 0, b |-> FALSE, o |-> "Add", args |-> <<0, 1>>],
    [k |-> "op", v |-> 0, b |-> FALSE, o |-> "And", args |-> <<>>] }

\* The structure the call c hands to the factory.
request(f, c) ==
  LET r == IF c.k = "var" THEN var(f, c.v)
           ELSE IF c.k = "bool" THEN bool(f, c.b)
           ELSE op(f, c.o, c.args)
  IN  get(r.factory, r.term)

\* A lock every thread may take at any time.
lock_free_always(lock) == TRUE

\* The write lock of the factory can be taken when no thread holds it.
lock_free(lock) == lock = 0

Idle == [pc |-> "idle", req |-> RInt(0), term |-> 0, n |-> 0]

InitConc ==
  /\ IsInstance(Instance_mk)
  /\ log = <<>>
  /\ ret = [op |-> "threads", lock |-> 0, th |-> [t \in Threads |-> Idle]]
  /\ data = <<>>

\* The number of calls the threads 1 .. t have entered so far.
RECURSIVE entered(_, _)
entered(th, t) ==
  IF t = 0 THEN 0
  ELSE entered(th, t - 1) + th[t].n + (IF th[t].pc = "idle" THEN 0 ELSE 1)

\* The thread t enters a constructor, which asks the factory for a structure.
\* The threads enter MaxCalls calls in all.
ConcCall(t) ==
  /\ ret.th[t].pc = "idle"
  /\ entered(ret.th, MaxThreads) < MaxCalls
  /\ \E c \in ConcCalls :
       ret' = [ret EXCEPT !.th[t].pc = "waiting", !.th[t].req = request(factory, c)]
  /\ UNCHANGED factory

\* The factory takes its write lock for t.
ConcLock(t) ==
  /\ ret.th[t].pc = "waiting"
  /\ lock_free(ret.lock)
  /\ ret' = [ret EXCEPT !.lock = t, !.th[t].pc = "locked"]
  /\ UNCHANGED factory

\* The look-up: the term of the structure when the factory holds it.
ConcLookup(t) ==
  /\ ret.th[t].pc = "locked"
  /\ IF \E u \in Terms(factory) : get(factory, u) = ret.th[t].req
     THEN ret' = [ret EXCEPT
                    !.th[t].pc = "made",
                    !.th[t].term = CHOOSE u \in Terms(factory) :
                                     get(factory, u) = ret.th[t].req]
     ELSE ret' = [ret EXCEPT !.th[t].pc = "missed"]
  /\ UNCHANGED factory

\* The insertion of a structure the look-up did not find.
ConcInsert(t) ==
  /\ ret.th[t].pc = "missed"
  /\ factory' = Append(factory, ret.th[t].req)
  /\ ret' = [ret EXCEPT !.th[t].pc = "made", !.th[t].term = Len(factory)]

\* The factory releases the lock and the constructor returns the term.
ConcReturn(t) ==
  /\ ret.th[t].pc = "made"
  /\ ret' = [ret EXCEPT !.lock = 0, !.th[t].pc = "idle", !.th[t].n = @ + 1]
  /\ UNCHANGED factory

ConcStep(t) == ConcLock(t) \/ ConcLookup(t) \/ ConcInsert(t) \/ ConcReturn(t)

NextConc ==
  /\ ret.op = "threads"
  /\ \E t \in Threads : ConcCall(t) \/ ConcStep(t)
  /\ UNCHANGED <<consts, preds, preds_term, max_pred_arity, clauses, log, data>>

SpecConc == InitConc /\ [][NextConc]_vars

\* Every thread runs: a thread that can take a step of its call takes it.
SpecConcFair ==
  SpecConc /\ \A t \in Threads : WF_vars(NextConc /\ ConcStep(t))

\* C24: in every interleaving of the calls of the threads the factory holds
\* no structure twice; the term a call gets is the term of the structure it
\* asked for, so that two threads that build the same structure get the same
\* term; a look-up and its insertion are done by the thread that holds the
\* lock, and a thread between two calls does not hold it; every call that
\* waits for the lock returns.
C24_ConcurrentConstruction ==
  /\ [](ret.op = "threads" =>
          /\ \A u, w \in Terms(factory) : get(factory, u) = get(factory, w) => u = w
          /\ \A t \in Threads :
               /\ (ret.th[t].pc = "made" \/ (ret.th[t].pc = "idle" /\ ret.th[t].n > 0)) =>
                    /\ ret.th[t].term \in Terms(factory)
                    /\ get(factory, ret.th[t].term) = ret.th[t].req
               /\ ret.th[t].pc \in {"locked", "missed", "made"} <=> ret.lock = t
          /\ \A t, u \in Threads :
               (/\ ret.th[t].n > 0 /\ ret.th[t].pc = "idle"
                /\ ret.th[u].n > 0 /\ ret.th[u].pc = "idle"
                /\ ret.th[t].req = ret.th[u].req) => ret.th[t].term = ret.th[u].term)
  /\ \A t \in Threads :
       (ret.op = "threads" /\ ret.th[t].pc = "waiting")
         ~> (ret.op = "threads" /\ ret.th[t].pc = "idle")

\* Two threads have built (+ 1 0): one entry of the factory, one term.
C24_Witness ==
  /\ ret.op = "threads"
  /\ \A t \in {1, 2} :
       /\ ret.th[t].pc = "idle" /\ ret.th[t].n > 0
       /\ ret.th[t].req = RApp("Add", <<0, 1>>)
       /\ ret.th[t].term = 2
  /\ Len(factory) = 3

(***************************************************************************)
(* The parsers of the checker. A text is the sequence of the code points   *)
(* of its characters (40 for the opening parenthesis, 8232 for the line    *)
(* separator U+2028), so that every character of Unicode can be in a text: *)
(* the parsers read bytes, here those of a text in UTF-8, which the        *)
(* regular expressions match character by character. code and text give   *)
(* the code points of the characters written as strings. A parser reads a  *)
(* text from a position p, counted in characters (the first character is   *)
(* at 1, where the code counts bytes), and answers the position after what *)
(* it has read and the value it has parsed. A position below 1 stands for  *)
(* a failure: 0 for the Error of nom (the text does not match), -1 for its *)
(* Incomplete (the text ends where the parser needs more). A parser handed *)
(* a failure hands it on, as the sequences of do_parse! do.                *)
(***************************************************************************)
\* The printable characters of ASCII from the space (32) to the underscore
\* (95), and those from the letter a (97) to the tilde (126).
Printable ==
  << " ", "!", "\"", "#", "$", "%", "&", "'", "(", ")", "*", "+", ",", "-", ".", "/",
     "0", "1", "2", "3", "4", "5", "6", "7", "8", "9", ":", ";", "<", "=", ">", "?",
     "@", "A", "B", "C", "D", "E", "F", "G", "H", "I", "J", "K", "L", "M", "N", "O",
     "P", "Q", "R", "S", "T", "U", "V", "W", "X", "Y", "Z", "[", "\\", "]", "^", "_" >>

Small ==
  << "a", "b", "c", "d", "e", "f", "g", "h", "i", "j", "k", "l", "m", "n", "o", "p",
     "q", "r", "s", "t", "u", "v", "w", "x", "y", "z", "{", "|", "}", "~" >>

\* The code point of the character ch, a printable character of ASCII, the
\* tab, the line feed, the form feed or the carriage return.
code(ch) ==
  CASE ch = "\t" -> 9
    [] ch = "\n" -> 10
    [] ch = "\f" -> 12
    [] ch = "\r" -> 13
    [] \E i \in DOMAIN Small : Small[i] = ch ->
         96 + CHOOSE i \in DOMAIN Small : Small[i] = ch
    [] OTHER -> 31 + CHOOSE i \in DOMAIN Printable : Printable[i] = ch

\* The text of the characters cs.
text(cs) == [i \in DOMAIN cs |-> code(cs[i])]

LPar == code("(")
RPar == code(")")
Bar == code("|")
Semicolon == code(";")
Underscore == code("_")
LineFeed == code("\n")
CarriageReturn == code("\r")
SpaceChar == code(" ")

\* a-z, A-Z, 0-9
Lower == code("a") .. code("z")
Upper == code("A") .. code("Z")
Digit == code("0") .. code("9")
\* The characters nom::multispace reads: space, tab, carriage return, line
\* feed.
Blank == {SpaceChar, code("\t"), CarriageReturn, LineFeed}
\* \s of a regular expression, the white space of Unicode: U+0009 to U+000D,
\* U+0020, U+0085, U+00A0, U+1680, U+2000 to U+200A, U+2028, U+2029, U+202F,
\* U+205F and U+3000.
Space ==
  (9 .. 13) \cup {32, 133, 160, 5760} \cup (8192 .. 8202)
  \cup {8232, 8233, 8239, 8287, 12288}

Fail == [pos |-> 0, val |-> <<>>]
Incomplete == [pos |-> -1, val |-> <<>>]

\* The failure of a sequence whose parser failed with the position p.
failed(p) == IF p = -1 THEN Incomplete ELSE Fail

\* The end of the longest run of characters of class that starts at p.
run(s, p, class) ==
  CHOOSE q \in p .. Len(s) + 1 :
    /\ \A i \in p .. q - 1 : s[i] \in class
    /\ q = Len(s) + 1 \/ s[q] \notin class

\* The end of the longest run of characters out of class that starts at p.
run_not(s, p, class) ==
  CHOOSE q \in p .. Len(s) + 1 :
    /\ \A i \in p .. q - 1 : s[i] \notin class
    /\ q = Len(s) + 1 \/ s[q] \in class

\* What a regular expression found between p and q.
found(s, p, q) == [pos |-> q, val |-> SubSeq(s, p, q - 1)]

\* char!(c): Incomplete at the end of the text.
char(s, p, c) ==
  IF p =< 0 THEN p
  ELSE IF p > Len(s) THEN -1
  ELSE IF s[p] = c THEN p + 1 ELSE 0

\* tag!(word): Incomplete when the text ends inside the word.
tag(s, p, word) ==
  IF p =< 0 THEN p
  ELSE IF p + Len(word) - 1 =< Len(s)
  THEN (IF SubSeq(s, p, p + Len(word) - 1) = word THEN p + Len(word) ELSE 0)
  ELSE IF SubSeq(s, p, Len(s)) = SubSeq(word, 1, Len(s) - p + 1) THEN -1
  ELSE 0

\* cmt: ^;.*[\n\r]*
cmt(s, p) ==
  IF p > 0 /\ p =< Len(s) /\ s[p] = Semicolon
  THEN run(s, run_not(s, p + 1, {LineFeed}), {LineFeed, CarriageReturn})
  ELSE 0

\* nom::multispace: Incomplete at the end of the text.
multispace(s, p) ==
  IF p =< 0 THEN p
  ELSE IF p > Len(s) THEN -1
  ELSE IF s[p] \in Blank THEN run(s, p, Blank) ELSE 0

\* spc_cmt: many0! ends at the end of the text, and where alt_complete!
\* finds neither a comment nor blanks.
RECURSIVE spc_cmt(_, _)
spc_cmt(s, p) ==
  IF p =< 0 THEN p
  ELSE IF p > Len(s) THEN p
  ELSE IF cmt(s, p) > 0 THEN spc_cmt(s, cmt(s, p))
  ELSE IF multispace(s, p) > 0 THEN spc_cmt(s, multispace(s, p))
  ELSE p

\* sident: ^[a-zA-Z][a-zA-Z0-9_]*
sident(s, p) ==
  IF p =< 0 THEN failed(p)
  ELSE IF p =< Len(s) /\ s[p] \in Lower \cup Upper
  THEN found(s, p, run(s, p + 1, Lower \cup Upper \cup Digit \cup {Underscore}))
  ELSE Fail

\* The second alternative of qident: ^\|[^\|]*\|
qident_re(s, p) ==
  IF char(s, p, Bar) > 0 /\ run_not(s, p + 1, {Bar}) =< Len(s)
  THEN found(s, p, run_not(s, p + 1, {Bar}) + 1)
  ELSE Fail

\* qident: a simple identifier between bars, without the bars, or else what
\* the regular expression finds, bars included. alt_complete! goes to the
\* second alternative when the first is an Error or Incomplete.
qident(s, p) ==
  IF p =< 0 THEN failed(p)
  ELSE IF char(s, sident(s, char(s, p, Bar)).pos, Bar) > 0
  THEN [pos |-> sident(s, p + 1).pos + 1, val |-> sident(s, p + 1).val]
  ELSE qident_re(s, p)

\* ident
ident(s, p) ==
  IF p =< 0 THEN failed(p)
  ELSE IF sident(s, p).pos > 0 THEN sident(s, p)
  ELSE qident(s, p)

\* typ: ^[A-Z][a-zA-Z]*
typ(s, p) ==
  IF p =< 0 THEN failed(p)
  ELSE IF p =< Len(s) /\ s[p] \in Upper
  THEN found(s, p, run(s, p + 1, Lower \cup Upper))
  ELSE Fail

\* The second alternative of s_expr: ^[^\s()][^\s()]*
s_expr_atom(s, p) ==
  IF p > 0 /\ p =< Len(s) /\ s[p] \notin Space \cup {LPar, RPar}
  THEN found(s, p, run_not(s, p, Space \cup {LPar, RPar}))
  ELSE Fail

\* The string s_expr builds for the terms between parentheses.
RECURSIVE s_expr_flat(_, _)
s_expr_flat(terms, k) ==
  IF k > Len(terms) THEN <<RPar>>
  ELSE terms[k] \o <<SpaceChar>> \o s_expr_flat(terms, k + 1)

\* A term read, then the terms that follow it; the failure of what follows
\* is the failure of the list.
s_expr_cons(term, terms) ==
  IF terms.pos =< 0 THEN terms
  ELSE [pos |-> terms.pos, val |-> <<term.val>> \o terms.val]

\* The parenthesised s-expression whose terms have been read.
s_expr_close(s, terms) ==
  IF terms.pos > 0 /\ terms.val # <<>> /\ char(s, spc_cmt(s, terms.pos), RPar) > 0
  THEN [pos |-> char(s, spc_cmt(s, terms.pos), RPar),
        val |-> <<LPar, SpaceChar>> \o s_expr_flat(terms.val, 1)]
  ELSE Fail

\* s_expr, and the many1! and many0! of terminated!(s_expr, spc_cmt).
\* s_expr is an alt_complete!: its third alternative ending with the text
\* is an Error.
RECURSIVE s_expr(_, _), s_exprs(_, _)
s_expr(s, p) ==
  IF p =< 0 THEN failed(p)
  ELSE IF ident(s, p).pos > 0 THEN ident(s, p)
  ELSE IF s_expr_atom(s, p).pos > 0 THEN s_expr_atom(s, p)
  ELSE IF char(s, p, LPar) > 0 THEN s_expr_close(s, s_exprs(s, spc_cmt(s, p + 1)))
  ELSE Fail

s_exprs(s, p) ==
  IF s_expr(s, p).pos =< 0 THEN [pos |-> p, val |-> <<>>]
  ELSE s_expr_cons(s_expr(s, p), s_exprs(s, spc_cmt(s, s_expr(s, p).pos)))

\* many0!( terminated!(typ, spc_cmt) )
RECURSIVE typs(_, _)
typs(s, p) ==
  IF typ(s, p).pos =< 0 THEN [pos |-> p, val |-> <<>>]
  ELSE s_expr_cons(typ(s, p), typs(s, spc_cmt(s, typ(s, p).pos)))

\* pred_dec from the closing parenthesis of the signature on.
pred_dec_close(s, pred, sig) ==
  IF sig.pos =< 0 THEN failed(sig.pos)
  ELSE IF char(s, spc_cmt(s, char(s, spc_cmt(s, sig.pos), RPar)), RPar) > 0
  THEN [pos |-> char(s, spc_cmt(s, char(s, spc_cmt(s, sig.pos), RPar)), RPar),
        val |-> [pred |-> pred.val, sig |-> sig.val]]
  ELSE failed(char(s, spc_cmt(s, char(s, spc_cmt(s, sig.pos), RPar)), RPar))

\* pred_dec from the opening parenthesis of the signature on.
pred_dec_sig(s, pred) ==
  IF pred.pos =< 0 THEN failed(pred.pos)
  ELSE pred_dec_close(s, pred, typs(s, spc_cmt(s, char(s, spc_cmt(s, pred.pos), LPar))))

\* tag!("declare-pred"), tag!("clause"), tag!("infer")
DeclarePred == text(<<"d", "e", "c", "l", "a", "r", "e", "-", "p", "r", "e", "d">>)
ClauseTag == text(<<"c", "l", "a", "u", "s", "e">>)
InferTag == text(<<"i", "n", "f", "e", "r">>)

\* pred_dec
pred_dec(s, p) ==
  IF p =< 0 THEN failed(p)
  ELSE pred_dec_sig(s, ident(s, spc_cmt(s, tag(s, spc_cmt(s, char(s, p, LPar)),
                                          DeclarePred))))

\* One argument of arguments, ( ident typ ), from its type on.
argument_typ(s, id, ty) ==
  IF ty.pos =< 0 THEN failed(ty.pos)
  ELSE IF char(s, spc_cmt(s, ty.pos), RPar) > 0
  THEN [pos |-> spc_cmt(s, char(s, spc_cmt(s, ty.pos), RPar)),
        val |-> <<id.val, ty.val>>]
  ELSE failed(char(s, spc_cmt(s, ty.pos), RPar))

argument_id(s, id) ==
  IF id.pos =< 0 THEN failed(id.pos)
  ELSE argument_typ(s, id, typ(s, spc_cmt(s, id.pos)))

argument(s, p) ==
  IF p =< 0 THEN failed(p)
  ELSE argument_id(s, ident(s, spc_cmt(s, char(s, p, LPar))))

\* The many0! of arguments: the list ends at the end of the text and where
\* an argument is an Error; it is Incomplete when an argument is.
RECURSIVE argument_list(_, _)
argument_list(s, p) ==
  IF p =< 0 THEN failed(p)
  ELSE IF p > Len(s) THEN [pos |-> p, val |-> <<>>]
  ELSE IF argument(s, p).pos = -1 THEN Incomplete
  ELSE IF argument(s, p).pos = 0 THEN [pos |-> p, val |-> <<>>]
  ELSE s_expr_cons(argument(s, p), argument_list(s, argument(s, p).pos))

arguments_close(s, args) ==
  IF args.pos =< 0 THEN failed(args.pos)
  ELSE IF char(s, spc_cmt(s, args.pos), RPar) > 0
  THEN [pos |-> char(s, spc_cmt(s, args.pos), RPar), val |-> args.val]
  ELSE failed(char(s, spc_cmt(s, args.pos), RPar))

\* arguments
arguments(s, p) ==
  IF p =< 0 THEN failed(p)
  ELSE arguments_close(s, argument_list(s, spc_cmt(s, char(s, p, LPar))))

\* clause from its right-hand side on.
clause_rhs(s, args, lhs, rhs) ==
  IF rhs.pos =< 0 THEN failed(rhs.pos)
  ELSE IF char(s, spc_cmt(s, rhs.pos), RPar) > 0
  THEN [pos |-> char(s, spc_cmt(s, rhs.pos), RPar),
        val |-> [args |-> args.val, lhs |-> lhs.val, rhs |-> rhs.val]]
  ELSE failed(char(s, spc_cmt(s, rhs.pos), RPar))

\* clause from the closing parenthesis of its left-hand side on.
clause_lhs(s, args, lhs) ==
  IF lhs.pos =< 0 THEN failed(lhs.pos)
  ELSE clause_rhs(s, args, lhs,
             s_expr(s, spc_cmt(s, char(s, spc_cmt(s, lhs.pos), RPar))))

\* clause from the opening parenthesis of its left-hand side on.
clause_args(s, args) ==
  IF args.pos =< 0 THEN failed(args.pos)
  ELSE clause_lhs(s, args, s_exprs(s, spc_cmt(s, char(s, spc_cmt(s, args.pos), LPar))))

\* clause
clause(s, p) ==
  IF p =< 0 THEN failed(p)
  ELSE clause_args(s, arguments(s, spc_cmt(s, tag(s, spc_cmt(s, char(s, p, LPar)),
                                             ClauseTag))))

\* infer
infer(s, p) ==
  char(s, spc_cmt(s, tag(s, spc_cmt(s, char(s, p, LPar)), InferTag)), RPar)

\* many0!( terminated!(pred_dec, spc_cmt) ): the list ends at the end of the
\* text and where a declaration is an Error; it is Incomplete when a
\* declaration is (the text ends inside it).
RECURSIVE pred_decs(_, _)
pred_decs(s, p) ==
  IF p =< 0 THEN failed(p)
  ELSE IF p > Len(s) THEN [pos |-> p, val |-> <<>>]
  ELSE IF pred_dec(s, p).pos = -1 THEN Incomplete
  ELSE IF pred_dec(s, p).pos = 0 THEN [pos |-> p, val |-> <<>>]
  ELSE s_expr_cons(pred_dec(s, p), pred_decs(s, spc_cmt(s, pred_dec(s, p).pos)))

\* many0!( terminated!(clause, spc_cmt) ), as pred_decs.
RECURSIVE clause_list(_, _)
clause_list(s, p) ==
  IF p =< 0 THEN failed(p)
  ELSE IF p > Len(s) THEN [pos |-> p, val |-> <<>>]
  ELSE IF clause(s, p).pos = -1 THEN Incomplete
  ELSE IF clause(s, p).pos = 0 THEN [pos |-> p, val |-> <<>>]
  ELSE s_expr_cons(clause(s, p), clause_list(s, spc_cmt(s, clause(s, p).pos)))

\* parse_input once the declarations and the clauses are read.
parse_input_infer(s, decs, cls) ==
  IF cls.pos =< 0 THEN failed(cls.pos)
  ELSE IF spc_cmt(s, infer(s, spc_cmt(s, cls.pos))) > 0
  THEN [pos |-> spc_cmt(s, infer(s, spc_cmt(s, cls.pos))),
        val |-> [pred_decs |-> decs.val, clauses |-> cls.val]]
  ELSE failed(infer(s, spc_cmt(s, cls.pos)))

parse_input_clauses(s, decs) ==
  IF decs.pos =< 0 THEN failed(decs.pos)
  ELSE parse_input_infer(s, decs, clause_list(s, spc_cmt(s, decs.pos)))

\* parse_input: pos is where the text that is left starts (parse_input
\* answers Done with what it has not read), below 1 on a failure.
parse_input(s) == parse_input_clauses(s, pred_decs(s, spc_cmt(s, 1)))

(***************************************************************************)
(* The s-expression specification (SpecSexp): s_expr reads a text, then    *)
(* reads the string it has built for it. The texts are those of at most    *)
(* MaxText characters among the parentheses, a letter, a digit, the        *)
(* semicolon, the line feed, the bar and the line separator U+2028, which  *)
(* is white space for the regular expressions and not for nom::multispace. *)
(***************************************************************************)
MaxText == 6

Alphabet == {LPar, RPar, code("a"), code("1"), Semicolon, LineFeed, Bar, 8232}

Texts == UNION {[1 .. k -> Alphabet] : k \in 0 .. MaxText}

InitSexp ==
  /\ IsInstance(Instance_mk)
  /\ log = <<>>
  /\ ret = NoRet
  /\ data = <<>>

SExpr ==
  /\ ret = NoRet
  /\ \E s \in Texts :
       ret' = [op |-> "s_expr", input |-> s, out |-> s_expr(s, 1)]
  /\ UNCHANGED <<factory, consts, preds, preds_term, max_pred_arity, clauses, log, data>>

SExprAgain ==
  /\ ret.op = "s_expr"
  /\ ret.out.pos > 0
  /\ ret' = [op |-> "s_expr_again", input |-> ret.out.val,
             out |-> s_expr(ret.out.val, 1)]
  /\ UNCHANGED <<factory, consts, preds, preds_term, max_pred_arity, clauses, log, data>>

NextSexp == SExpr \/ SExprAgain

SpecSexp == InitSexp /\ [][NextSexp]_vars

(***************************************************************************)
(* Properties of s_expr (specification SpecSexp).                          *)
(***************************************************************************)
\* The tokens of the grammar in the text s from p on: a parenthesis, an
\* identifier (simple, or anything between two bars, bars included), or
\* else an atom, the characters up to the next white space or parenthesis
\* ("anything but a space or a paren", parse.rs 85); blanks and comments,
\* from a semicolon to the end of the line, lie between the tokens.
RECURSIVE Tokens(_, _)
Tokens(s, p) ==
  IF p > Len(s) THEN <<>>
  ELSE IF s[p] \in Blank THEN Tokens(s, p + 1)
  ELSE IF s[p] = Semicolon THEN Tokens(s, run_not(s, p, {LineFeed, CarriageReturn}))
  ELSE IF s[p] \in {LPar, RPar} THEN <<<<s[p]>>>> \o Tokens(s, p + 1)
  ELSE IF s[p] \in Lower \cup Upper
  THEN LET q == run(s, p, Lower \cup Upper \cup Digit \cup {Underscore})
       IN  <<SubSeq(s, p, q - 1)>> \o Tokens(s, q)
  ELSE IF s[p] = Bar /\ run_not(s, p + 1, {Bar}) =< Len(s)
  THEN LET q == run_not(s, p + 1, {Bar}) + 1
       IN  <<SubSeq(s, p, q - 1)>> \o Tokens(s, q)
  ELSE LET q == run_not(s, p + 1, Space \cup {LPar, RPar})
       IN  <<SubSeq(s, p, q - 1)>> \o Tokens(s, q)

\* The tokens ts[k], ts[k + 1], ... with one space between two of them.
RECURSIVE Spaced(_, _)
Spaced(ts, k) ==
  IF k > Len(ts) THEN <<>>
  ELSE IF k = Len(ts) THEN ts[k]
  ELSE ts[k] \o <<SpaceChar>> \o Spaced(ts, k + 1)

\* s_expr has read the whole of a parenthesised text.
ReadAll == ret.out.pos = Len(ret.input) + 1 /\ ret.input[1] = LPar

\* The number of parentheses open after the first n of the tokens ts.
Nesting(ts, n) ==
  Cardinality({k \in 1 .. n : ts[k] = <<LPar>>})
  - Cardinality({k \in 1 .. n : ts[k] = <<RPar>>})

\* A simple identifier between two bars.
QuotedSimple(t) ==
  /\ Len(t) >= 3
  /\ t[1] = Bar /\ t[Len(t)] = Bar
  /\ t[2] \in Lower \cup Upper
  /\ \A i \in 3 .. Len(t) - 1 : t[i] \in Lower \cup Upper \cup Digit \cup {Underscore}

\* The tokens ts are one parenthesised s-expression of the grammar: the
\* first parenthesis is closed by the last token, no pair of parentheses is
\* empty, and a token that is not a parenthesis is an identifier or an
\* atom, which has no white space (the line separator is white space and is
\* not a blank).
Conforms(ts) ==
  /\ Len(ts) >= 3
  /\ ts[1] = <<LPar>>
  /\ Nesting(ts, Len(ts)) = 0
  /\ \A n \in 1 .. Len(ts) - 1 :
       /\ Nesting(ts, n) > 0
       /\ ~(ts[n] = <<LPar>> /\ ts[n + 1] = <<RPar>>)
  /\ \A n \in DOMAIN ts :
       \/ ts[n] \in {<<LPar>>, <<RPar>>}
       \/ ts[n][1] \in Lower \cup Upper
       \/ ts[n][1] = Bar /\ Len(ts[n]) >= 2 /\ ts[n][Len(ts[n])] = Bar
       \/ \A i \in DOMAIN ts[n] : ts[n][i] \notin Space

\* C22: the string s_expr builds for a text that starts with a parenthesis
\* and is a parenthesised expression of the grammar is the tokens of the
\* text, in order, with one space between two of them, and s_expr reads that
\* string as itself.
C22_RoundTrip ==
  /\ (ret.op = "s_expr" /\ ret.input # <<>> /\ ret.input[1] = LPar
      /\ Conforms(Tokens(ret.input, 1))) =>
       /\ ret.out.pos > 0
       /\ ret.out.val = Spaced(Tokens(ret.input, 1), 1)
  /\ (ret.op = "s_expr_again" /\ ret.input[1] = LPar) =>
       ReadAll /\ ret.out.val = ret.input

\* The first half of C22 where no token is a simple identifier between
\* bars: the string s_expr builds is the tokens of the text with one space
\* between two of them.
C22_ButQuoted ==
  (ret.op = "s_expr" /\ ret.input # <<>> /\ ret.input[1] = LPar
   /\ Conforms(Tokens(ret.input, 1))
   /\ \A n \in DOMAIN Tokens(ret.input, 1) : ~QuotedSimple(Tokens(ret.input, 1)[n])) =>
    /\ ret.out.pos > 0
    /\ ret.out.val = Spaced(Tokens(ret.input, 1), 1)

\* The second half of C22 alone: s_expr reads the string it has built as
\* itself.
C22_ReadsItself ==
  (ret.op = "s_expr_again" /\ ret.input[1] = LPar) =>
    ReadAll /\ ret.out.val = ret.input

(***************************************************************************)
(* The input specification (SpecParse): parse_input reads a text made of   *)
(* at most MaxItems items, each a declaration, a clause, the infer         *)
(* command, an ill-formed declaration or clause, or a declaration that is  *)
(* not closed, with the same separator (none, a space, a comment) before,  *)
(* between and after the items.                                            *)
(***************************************************************************)
MaxItems == 3

\* The items, with what the grammar says they are and what they stand for.
Items ==
  << [kind |-> "dec",
      text |-> text(<<"(", "d", "e", "c", "l", "a", "r", "e", "-", "p", "r", "e", "d", " ", "p", " ", "(", "I", "n", "t", " ", "I", "n", "t", ")", ")">>),
      ast |-> [pred |-> text(<<"p">>), sig |-> <<text(<<"I", "n", "t">>), text(<<"I", "n", "t">>)>>]],
     [kind |-> "dec",
      text |-> text(<<"(", " ", "d", "e", "c", "l", "a", "r", "e", "-", "p", "r", "e", "d", " ", ";", "c", "\n", " ", "q", "(", ")", ")">>),
      ast |-> [pred |-> text(<<"q">>), sig |-> <<>>]],
     [kind |-> "clause",
      text |-> text(<<"(", "c", "l", "a", "u", "s", "e", " ", "(", "(", "x", " ", "I", "n", "t", ")", "(", "y", " ", "I", "n", "t", ")", ")", " ", "(", "(", ">", " ", "x", " ", "y", ")", ")", " ", "(", "p", " ", "x", " ", "y", ")", ")">>),
      ast |-> [args |-> <<<<text(<<"x">>), text(<<"I", "n", "t">>)>>, <<text(<<"y">>), text(<<"I", "n", "t">>)>>>>, lhs |-> <<text(<<"(", " ", ">", " ", "x", " ", "y", " ", ")">>)>>, rhs |-> text(<<"(", " ", "p", " ", "x", " ", "y", " ", ")">>)]],
     [kind |-> "clause",
      text |-> text(<<"(", "c", "l", "a", "u", "s", "e", " ", "(", " ", "(", " ", "b", " ", "B", "o", "o", "l", " ", ")", " ", ")", " ", "(", "b", " ", "(", "q", ")", ")", " ", "f", "a", "l", "s", "e", ")">>),
      ast |-> [args |-> <<<<text(<<"b">>), text(<<"B", "o", "o", "l">>)>>>>, lhs |-> <<text(<<"b">>), text(<<"(", " ", "q", " ", ")">>)>>, rhs |-> text(<<"f", "a", "l", "s", "e">>)]],
     [kind |-> "infer",
      text |-> text(<<"(", "i", "n", "f", "e", "r", ")">>),
      ast |-> <<>>],
     [kind |-> "junk",
      text |-> text(<<"(", "d", "e", "c", "l", "a", "r", "e", "-", "p", "r", "e", "d", " ", "p", " ", "I", "n", "t", ")">>),
      ast |-> <<>>],
     [kind |-> "junk",
      text |-> text(<<"(", "c", "l", "a", "u", "s", "e", " ", "(", "(", "x", " ", "I", "n", "t", ")", ")", " ", "(", "p", " ", "x", ")", ")">>),
      ast |-> <<>>],
     [kind |-> "junk",
      text |-> text(<<"(", "d", "e", "c", "l", "a", "r", "e", "-", "p", "r", "e", "d", " ", "p", " ", "(", "I", "n", "t">>),
      ast |-> <<>>] >>

Separators == {<<>>, text(<<" ">>), text(<<" ", ";", "c", "\n">>)}

ItemLists == UNION {[1 .. k -> DOMAIN Items] : k \in 0 .. MaxItems}

\* The text of the items is[k], is[k + 1], ...
RECURSIVE input_text(_, _, _)
input_text(is, sep, k) ==
  IF k > Len(is) THEN sep
  ELSE sep \o Items[is[k]].text \o input_text(is, sep, k + 1)

InitParse ==
  /\ IsInstance(Instance_mk)
  /\ log = <<>>
  /\ ret = NoRet
  /\ data = <<>>

ParseInput ==
  /\ ret = NoRet
  /\ \E is \in ItemLists : \E sep \in Separators :
       ret' = [op |-> "parse_input", items |-> is, sep |-> sep,
               input |-> input_text(is, sep, 1),
               out |-> parse_input(input_text(is, sep, 1))]
  /\ UNCHANGED <<factory, consts, preds, preds_term, max_pred_arity, clauses, log, data>>

NextParse == ParseInput

SpecParse == InitParse /\ [][NextParse]_vars

(***************************************************************************)
(* Properties of parse_input (specification SpecParse).                    *)
(***************************************************************************)
\* The kinds of the items.
Kinds(is) == [k \in DOMAIN is |-> Items[is[k]].kind]

\* Declarations, then clauses, then infer.
WellFormed(is) ==
  /\ is # <<>>
  /\ Kinds(is)[Len(is)] = "infer"
  /\ \A k \in 1 .. Len(is) - 1 : Kinds(is)[k] \in {"dec", "clause"}
  /\ \A j, k \in 1 .. Len(is) - 1 :
       (j < k /\ Kinds(is)[j] = "clause") => Kinds(is)[k] = "clause"

\* What the items of the kind stand for, in the order of the items.
RECURSIVE Asts(_, _, _)
Asts(is, kind, k) ==
  IF k > Len(is) THEN <<>>
  ELSE (IF Items[is[k]].kind = kind THEN <<Items[is[k]].ast>> ELSE <<>>)
       \o Asts(is, kind, k + 1)

\* The items up to the first infer command, none when there is no infer.
UpToInfer(is) ==
  IF \E k \in DOMAIN is : Kinds(is)[k] = "infer"
  THEN SubSeq(is, 1, CHOOSE k \in DOMAIN is :
                       /\ Kinds(is)[k] = "infer"
                       /\ \A j \in 1 .. k - 1 : Kinds(is)[j] # "infer")
  ELSE <<>>

\* C21: parse_input accepts a text (answers an input for it) exactly when
\* the text is declarations, then clauses, then infer, with nothing, blanks
\* or comments between them; the input it answers then lists the
\* declarations and the clauses of the text in the order of the text, each
\* declaration with its name and one entry of its signature per type, each
\* clause with its arguments, the strings of the s-expressions of its
\* left-hand side in order and the string of its right-hand side.
C21_ParseInput ==
  ret.op = "parse_input" =>
    /\ ret.out.pos > 0 <=> WellFormed(ret.items)
    /\ ret.out.pos > 0 =>
         /\ ret.out.val.pred_decs = Asts(ret.items, "dec", 1)
         /\ ret.out.val.clauses = Asts(ret.items, "clause", 1)

\* What parse_input does: it answers an input exactly when the items up to
\* the first infer are declarations, then clauses, then that infer; it has
\* then read these items and no more, and the input lists their
\* declarations and their clauses in order.
C21_ReadsPrefix ==
  ret.op = "parse_input" =>
    /\ ret.out.pos > 0 <=> WellFormed(UpToInfer(ret.items))
    /\ ret.out.pos > 0 =>
         /\ ret.out.pos = Len(input_text(UpToInfer(ret.items), ret.sep, 1)) + 1
         /\ ret.out.val.pred_decs = Asts(UpToInfer(ret.items), "dec", 1)
         /\ ret.out.val.clauses = Asts(UpToInfer(ret.items), "clause", 1)

====
